---- MODULE Spec2Model ----
(***************************************************************************)
(* Model of the signal-to-trade pipeline of trading-ai:                    *)
(*   - RiskManager (services/risk_manager.py)                              *)
(*   - the paper ledger TradingEngine (services/trading_engine.py) with    *)
(*     Trade / Position / Portfolio (models/trading.py)                    *)
(*   - the Alpaca AutoExecuteEngine (services/auto_execute_alpaca.py)      *)
(*                                                                         *)
(* Python floats are modelled as fixed-point numbers: an integer n stands  *)
(* for n / SCALE.  Addition and subtraction are exact, every               *)
(* multiplication and division rounds to the nearest representable value,  *)
(* as a finite-precision float operation does.  Optional values are <<>>   *)
(* (None) or <<v>>.                                                        *)
(***************************************************************************)
EXTENDS Integers, Sequences, FiniteSets, TLC

VARIABLES
    settings,       \* TradingEngine.risk_manager.settings (RiskSettings)
    portfolio,      \* TradingEngine.portfolio
    positions,      \* TradingEngine.positions : symbol -> Position
    trades,         \* TradingEngine.trades, in creation order; the id is the index
    open_trades,    \* TradingEngine.open_trades : list of trade ids
    last_call,      \* the last ledger call: operation, trade id argument, outcome
    ticks,          \* number of price updates so far (bounded by MaxTicks)
    risk_call,      \* one call of RiskManager.validate_trade: inputs and result
    parsed,         \* one ParsedSignal: its fields, and the Signal to_signal made of it
    config,             \* AutoExecuteEngine.config
    ai_analyzer,        \* AutoExecuteEngine.ai_analyzer is set
    broker,             \* AutoExecuteEngine.broker is set
    daily_trades,       \* AutoExecuteEngine.daily_trades
    last_reset_date,    \* AutoExecuteEngine.last_reset_date, in days
    last_trade_time,    \* AutoExecuteEngine.last_trade_time : symbol -> minutes
    consecutive_errors, \* AutoExecuteEngine.consecutive_errors
    trade_history,      \* AutoExecuteEngine.trade_history
    now,                \* datetime.now(timezone.utc), in minutes
    procs,              \* the concurrent process_signal calls: position and locals
    returned            \* the result the last finished process_signal call returned

ledgerVars == <<settings, portfolio, positions, trades, open_trades, last_call, ticks>>

pureVars == <<risk_call, parsed>>

alpacaVars == <<config, ai_analyzer, broker, daily_trades, last_reset_date, last_trade_time,
                consecutive_errors, trade_history, now, procs, returned>>

-----------------------------------------------------------------------------
(* Fixed-point arithmetic *)

\* two decimal digits
SCALE == 10 * 10

None == <<>>
Some(v) == <<v>>

Abs(x) == IF x < 0 THEN -x ELSE x

Min(a, b) == IF a <= b THEN a ELSE b

Max(a, b) == IF a >= b THEN a ELSE b

\* n / d rounded to the nearest integer, halves away from zero
RoundDiv(n, d) ==
    LET q == (2 * Abs(n) + Abs(d)) \div (2 * Abs(d))
    IN  IF (n < 0) # (d < 0) THEN -q ELSE q

\* float product a * b
FMul(a, b) == RoundDiv(a * b, SCALE)

\* float quotient a / b
FDiv(a, b) == RoundDiv(a * SCALE, b)

\* the float value of an integer literal
Num(k) == k * SCALE

RECURSIVE SumSet(_, _)
SumSet(S, f) ==
    IF S = {} THEN 0
    ELSE LET e == CHOOSE e \in S : TRUE IN f[e] + SumSet(S \ {e}, f)

-----------------------------------------------------------------------------
(* models/settings.py *)

\* RiskSettings() with its field defaults
DefaultRiskSettings ==
    [ max_risk_per_trade_percent |-> Num(2),
      max_open_positions         |-> 5,
      min_risk_reward_ratio      |-> 150,
      max_portfolio_risk_percent |-> Num(10) ]

\* TradingSettings.initial_balance
InitialBalance == Num(10000)

-----------------------------------------------------------------------------
(* services/risk_manager.py *)

RiskCheckResult(approved, reason, warnings, position_size, risk_amount, risk_percent) ==
    [ approved      |-> approved,
      reason        |-> reason,
      warnings      |-> warnings,
      position_size |-> position_size,
      risk_amount   |-> risk_amount,
      risk_percent  |-> risk_percent ]

Rejected(reason) == RiskCheckResult(FALSE, reason, {}, 0, 0, 0)

IsLong(action) == action \in {"long", "buy"}

\* mutant: sizes the position by the entry price instead of the distance to the stop
calculate_position_size_by_entry(entry_price, stop_loss, account_balance, max_risk_percent, leverage) ==
    LET risk_amount   == FMul(account_balance, FDiv(max_risk_percent, Num(100)))
        risk_per_unit == Abs(entry_price - stop_loss)
    IN  IF risk_per_unit <= 0
        THEN [valid |-> FALSE, reason |-> "invalid_stop",
              position_size |-> 0, risk_amount |-> 0, risk_percent |-> 0]
        ELSE
        LET position_size       == FDiv(risk_amount, entry_price)
            actual_risk_amount  == FMul(position_size, risk_per_unit)
            actual_risk_percent == FMul(FDiv(actual_risk_amount, account_balance), Num(100))
            position_value      == FMul(position_size, entry_price)
            max_position_value  == account_balance * leverage
        IN  IF position_value > max_position_value
            THEN [valid |-> FALSE, reason |-> "too_large",
                  position_size |-> 0, risk_amount |-> 0, risk_percent |-> 0]
            ELSE [valid |-> TRUE, reason |-> "none",
                  position_size |-> position_size,
                  risk_amount   |-> actual_risk_amount,
                  risk_percent  |-> actual_risk_percent]

calculate_position_size(entry_price, stop_loss, account_balance, max_risk_percent, leverage) ==
    LET risk_amount   == FMul(account_balance, FDiv(max_risk_percent, Num(100)))
        risk_per_unit == Abs(entry_price - stop_loss)
    IN  IF risk_per_unit <= 0
        THEN [valid |-> FALSE, reason |-> "invalid_stop",
              position_size |-> 0, risk_amount |-> 0, risk_percent |-> 0]
        ELSE
        LET position_size       == FDiv(risk_amount, risk_per_unit)
            actual_risk_amount  == FMul(position_size, risk_per_unit)
            actual_risk_percent == FMul(FDiv(actual_risk_amount, account_balance), Num(100))
            position_value      == FMul(position_size, entry_price)
            max_position_value  == account_balance * leverage
        IN  IF position_value > max_position_value
            THEN [valid |-> FALSE, reason |-> "too_large",
                  position_size |-> 0, risk_amount |-> 0, risk_percent |-> 0]
            ELSE [valid |-> TRUE, reason |-> "none",
                  position_size |-> position_size,
                  risk_amount   |-> actual_risk_amount,
                  risk_percent  |-> actual_risk_percent]

calculate_risk_reward(entry, stop_loss, take_profit, action) ==
    LET risk   == IF IsLong(action) THEN Abs(entry - stop_loss) ELSE Abs(stop_loss - entry)
        reward == IF IsLong(action) THEN Abs(take_profit - entry) ELSE Abs(entry - take_profit)
    IN  IF risk <= 0 THEN 0 ELSE FDiv(reward, risk)

\* symbol.split('/')[0] if '/' in symbol else symbol[:3], on the symbols of the model
SymbolBase(symbol) ==
    CASE symbol = "BTC/USDT" -> "BTC"
      [] symbol = "BTCUSD"   -> "BTC"
      [] symbol = "ETH/USDT" -> "ETH"
      [] OTHER               -> symbol

are_correlated(symbol1, symbol2) == SymbolBase(symbol1) = SymbolBase(symbol2)

\* risk to the stop of the open positions that have a (truthy) stop
PositionsRisk(current_positions) ==
    SumSet(DOMAIN current_positions,
           [s \in DOMAIN current_positions |->
               IF current_positions[s].stop_loss # 0
               THEN FMul(Abs(current_positions[s].entry_price - current_positions[s].stop_loss),
                         current_positions[s].quantity)
               ELSE 0])

\* (total_risk / balance) * 100 > max_portfolio_risk_percent, for a positive
\* balance; the quotient is compared as it is, not rounded to the grid of
\* SCALE: total_risk * Num(100) > max_portfolio_risk_percent * balance, with
\* the right-hand side divided by SCALE so that the products stay within
\* 32 bits
total_risk_percent_exceeds(total_risk, balance, max_portfolio_risk_percent) ==
    total_risk * SCALE
        > max_portfolio_risk_percent * (balance \div SCALE)
            + (max_portfolio_risk_percent * (balance % SCALE)) \div SCALE

\* mutant: the portfolio-risk check counts this trade's risk only
validate_trade_tail_own_risk(rs, signal, balance, current_positions) ==
    IF balance <= 0 THEN Rejected("insufficient_balance")
    ELSE
    LET psr == calculate_position_size(signal.entry, signal.stop_loss, balance,
                                       rs.max_risk_per_trade_percent, signal.leverage)
    IN  IF ~psr.valid THEN Rejected(psr.reason)
        ELSE
        LET rr_warn ==
                IF signal.take_profits # <<>>
                   /\ calculate_risk_reward(signal.entry, signal.stop_loss,
                                            signal.take_profits[1], signal.action)
                        < rs.min_risk_reward_ratio
                THEN {"low_rr"} ELSE {}
            total_risk         == psr.risk_amount
            corr_warn ==
                IF \E s \in DOMAIN current_positions : are_correlated(signal.asset, s)
                THEN {"correlated"} ELSE {}
        IN  IF total_risk_percent_exceeds(total_risk, balance, rs.max_portfolio_risk_percent)
            THEN Rejected("portfolio_risk")
            ELSE RiskCheckResult(TRUE, "none", rr_warn \cup corr_warn,
                                 psr.position_size, psr.risk_amount, psr.risk_percent)

\* the checks of validate_trade that follow the duplicate-symbol check
validate_trade_tail(rs, signal, balance, current_positions) ==
    IF balance <= 0 THEN Rejected("insufficient_balance")
    ELSE
    LET psr == calculate_position_size(signal.entry, signal.stop_loss, balance,
                                       rs.max_risk_per_trade_percent, signal.leverage)
    IN  IF ~psr.valid THEN Rejected(psr.reason)
        ELSE
        LET rr_warn ==
                IF signal.take_profits # <<>>
                   /\ calculate_risk_reward(signal.entry, signal.stop_loss,
                                            signal.take_profits[1], signal.action)
                        < rs.min_risk_reward_ratio
                THEN {"low_rr"} ELSE {}
            total_risk         == psr.risk_amount + PositionsRisk(current_positions)
            corr_warn ==
                IF \E s \in DOMAIN current_positions : are_correlated(signal.asset, s)
                THEN {"correlated"} ELSE {}
        IN  IF total_risk_percent_exceeds(total_risk, balance, rs.max_portfolio_risk_percent)
            THEN Rejected("portfolio_risk")
            ELSE RiskCheckResult(TRUE, "none", rr_warn \cup corr_warn,
                                 psr.position_size, psr.risk_amount, psr.risk_percent)

\* mutant: the existing-position check is missing
validate_trade_no_duplicate_check(rs, signal, balance, current_positions) ==
    IF Cardinality(DOMAIN current_positions) >= rs.max_open_positions
    THEN Rejected("max_positions")
    ELSE validate_trade_tail(rs, signal, balance, current_positions)

\* mutant: the balance check comes before the position checks
validate_trade_balance_first(rs, signal, balance, current_positions) ==
    IF balance <= 0 THEN Rejected("insufficient_balance")
    ELSE IF Cardinality(DOMAIN current_positions) >= rs.max_open_positions
    THEN Rejected("max_positions")
    ELSE IF signal.asset \in DOMAIN current_positions
    THEN Rejected("duplicate")
    ELSE validate_trade_tail(rs, signal, balance, current_positions)

\* mutant: the position-limit check is missing
validate_trade_no_position_limit(rs, signal, balance, current_positions) ==
    IF signal.asset \in DOMAIN current_positions
    THEN Rejected("duplicate")
    ELSE validate_trade_tail(rs, signal, balance, current_positions)

validate_trade(rs, signal, balance, current_positions) ==
    IF Cardinality(DOMAIN current_positions) >= rs.max_open_positions
    THEN Rejected("max_positions")
    ELSE IF signal.asset \in DOMAIN current_positions
    THEN Rejected("duplicate")
    ELSE validate_trade_tail(rs, signal, balance, current_positions)

-----------------------------------------------------------------------------
(* models/trading.py *)

\* Position.update_pnl
Position_update_pnl(pos, current_price) ==
    LET pnl == IF pos.side = "long"
               THEN FMul(current_price - pos.entry_price, pos.quantity)
               ELSE FMul(pos.entry_price - current_price, pos.quantity)
        position_value == FMul(pos.entry_price, pos.quantity)
    IN  [pos EXCEPT !.current_price = current_price,
                    !.unrealized_pnl = pnl * pos.leverage,
                    !.unrealized_pnl_percent =
                        IF position_value # 0
                        THEN FMul(FDiv(pnl, position_value), Num(100)) ELSE 0]

\* mutant: the realized P&L is not stored
Trade_close_no_pnl(trade, exit_price, exit_reason) ==
    [trade EXCEPT !.exit_price = Some(exit_price),
                  !.exit_reason = Some(exit_reason),
                  !.status = "closed"]

\* Trade.close (commission = 0.0)
Trade_close(trade, exit_price, exit_reason) ==
    LET pnl == IF trade.side = "long"
               THEN FMul(exit_price - trade.entry_price, trade.quantity)
               ELSE FMul(trade.entry_price - exit_price, trade.quantity)
        position_value == FMul(trade.entry_price, trade.quantity)
    IN  [trade EXCEPT !.exit_price = Some(exit_price),
                      !.exit_reason = Some(exit_reason),
                      !.status = "closed",
                      !.realized_pnl = Some(pnl * trade.leverage),
                      !.realized_pnl_percent =
                          Some(IF position_value # 0
                               THEN FMul(FDiv(pnl, position_value), Num(100)) ELSE 0)]

\* Portfolio() as TradingEngine.__init__ builds it
NewPortfolio(initial_balance) ==
    [ initial_balance       |-> initial_balance,
      current_balance       |-> initial_balance,
      available_balance     |-> initial_balance,
      margin_used           |-> 0,
      total_pnl             |-> 0,
      total_pnl_percent     |-> 0,
      open_positions        |-> 0,
      total_positions_value |-> 0,
      total_trades          |-> 0,
      winning_trades        |-> 0,
      losing_trades         |-> 0,
      win_rate              |-> 0,
      max_drawdown          |-> 0 ]

\* mutant: a closed trade with a loss is not counted as a losing trade
Portfolio_update_from_trade_wins_only(pf, trade) ==
    IF trade.status # "closed" \/ trade.realized_pnl = None THEN pf
    ELSE
    LET pnl             == trade.realized_pnl[1]
        total_trades    == pf.total_trades + 1
        current_balance == pf.current_balance + pnl
        winning_trades  == IF pnl > 0 THEN pf.winning_trades + 1 ELSE pf.winning_trades
    IN  [pf EXCEPT !.total_trades = total_trades,
                   !.total_pnl = pf.total_pnl + pnl,
                   !.current_balance = current_balance,
                   !.available_balance = current_balance - pf.margin_used,
                   !.total_pnl_percent =
                       FMul(FDiv(current_balance - pf.initial_balance, pf.initial_balance),
                            Num(100)),
                   !.winning_trades = winning_trades,
                   !.win_rate = IF total_trades > 0
                                THEN FMul(FDiv(Num(winning_trades), Num(total_trades)), Num(100))
                                ELSE 0]

\* Portfolio.update_from_trade
Portfolio_update_from_trade(pf, trade) ==
    IF trade.status # "closed" \/ trade.realized_pnl = None THEN pf
    ELSE
    LET pnl             == trade.realized_pnl[1]
        total_trades    == pf.total_trades + 1
        current_balance == pf.current_balance + pnl
        winning_trades  == IF pnl > 0 THEN pf.winning_trades + 1 ELSE pf.winning_trades
        losing_trades   == IF pnl > 0 THEN pf.losing_trades ELSE pf.losing_trades + 1
    IN  [pf EXCEPT !.total_trades = total_trades,
                   !.total_pnl = pf.total_pnl + pnl,
                   !.current_balance = current_balance,
                   !.available_balance = current_balance - pf.margin_used,
                   !.total_pnl_percent =
                       FMul(FDiv(current_balance - pf.initial_balance, pf.initial_balance),
                            Num(100)),
                   !.winning_trades = winning_trades,
                   !.losing_trades = losing_trades,
                   !.win_rate = IF total_trades > 0
                                THEN FMul(FDiv(Num(winning_trades), Num(total_trades)), Num(100))
                                ELSE 0]

-----------------------------------------------------------------------------
(* services/trading_engine.py *)

\* logger.success(...): logging.Logger has no method "success", so the call
\* raises AttributeError and the handler ends there, after its state changes
LoggerSuccess == "AttributeError"

Ledger == [positions |-> positions, trades |-> trades,
           open_trades |-> open_trades, portfolio |-> portfolio]

RECURSIVE RemoveFirst(_, _)
\* list.remove(x)
RemoveFirst(seq, x) ==
    IF seq = <<>> THEN <<>>
    ELSE IF Head(seq) = x THEN Tail(seq)
    ELSE <<Head(seq)>> \o RemoveFirst(Tail(seq), x)

\* del d[key]
DictRemove(d, key) == [k \in (DOMAIN d) \ {key} |-> d[k]]

\* d[key] = value
DictPut(d, key, value) ==
    [k \in (DOMAIN d) \cup {key} |-> IF k = key THEN value ELSE d[k]]

PositionsValue(ps) ==
    SumSet(DOMAIN ps, [s \in DOMAIN ps |-> FMul(ps[s].quantity, ps[s].current_price)])

\* signal.entry * slippage_factor, the factor in 1/10000
Slipped(price, factor) == RoundDiv(price * factor, 10000)

\* mutant: the available balance is not recomputed when margin is reserved
ReserveMargin_stale_available(pf, margin_required, new_positions) ==
    [pf EXCEPT !.margin_used = pf.margin_used + margin_required,
               !.open_positions = Cardinality(DOMAIN new_positions),
               !.total_positions_value = PositionsValue(new_positions)]

\* execute_signal, "Update portfolio"
ReserveMargin(pf, margin_required, new_positions) ==
    [pf EXCEPT !.margin_used = pf.margin_used + margin_required,
               !.available_balance = pf.current_balance - (pf.margin_used + margin_required),
               !.open_positions = Cardinality(DOMAIN new_positions),
               !.total_positions_value = PositionsValue(new_positions)]

\* mutant: the margin is released at half its amount
ReleaseMargin_half(pf, margin_released, new_positions) ==
    [pf EXCEPT !.margin_used = pf.margin_used - (margin_released \div 2),
               !.available_balance = pf.current_balance - (pf.margin_used - (margin_released \div 2)),
               !.open_positions = Cardinality(DOMAIN new_positions)]

\* close_trade, "Release margin" and the final open_positions count
ReleaseMargin(pf, margin_released, new_positions) ==
    [pf EXCEPT !.margin_used = pf.margin_used - margin_released,
               !.available_balance = pf.current_balance - (pf.margin_used - margin_released),
               !.open_positions = Cardinality(DOMAIN new_positions)]

\* TradingEngine.execute_signal: slip is the value random.uniform(0.9995, 1.0005)
\* returns, in 1/10000
execute_signal(L, rs, signal, custom_quantity, slip) ==
    LET risk_check == validate_trade(rs, signal, L.portfolio.available_balance, L.positions)
    IN  IF ~risk_check.approved
        THEN [L |-> L, trade_id |-> 0, ret |-> "None", risk_check |-> risk_check]
        ELSE
        LET position_size == IF custom_quantity # None /\ custom_quantity[1] # 0
                             THEN custom_quantity[1] ELSE risk_check.position_size
            entry_price   == Slipped(signal.entry, slip)
            side          == IF IsLong(signal.action) THEN "long" ELSE "short"
            id            == Len(L.trades) + 1
            trade == [ id |-> id, symbol |-> signal.asset, side |-> side,
                       entry_price |-> entry_price, quantity |-> position_size,
                       leverage |-> signal.leverage,
                       stop_loss |-> signal.stop_loss, take_profits |-> signal.take_profits,
                       status |-> "open",
                       exit_price |-> None, exit_reason |-> None,
                       realized_pnl |-> None, realized_pnl_percent |-> None,
                       risk_amount |-> risk_check.risk_amount ]
            position == [ symbol |-> signal.asset, side |-> side,
                          entry_price |-> entry_price, quantity |-> position_size,
                          leverage |-> signal.leverage, current_price |-> entry_price,
                          unrealized_pnl |-> 0, unrealized_pnl_percent |-> 0,
                          stop_loss |-> signal.stop_loss, take_profits |-> signal.take_profits ]
            new_positions   == DictPut(L.positions, signal.asset, position)
            margin_required == RoundDiv(FMul(position_size, entry_price), signal.leverage)
        IN  [ L |-> [ trades      |-> Append(L.trades, trade),
                      open_trades |-> Append(L.open_trades, id),
                      positions   |-> new_positions,
                      portfolio   |-> ReserveMargin(L.portfolio, margin_required,
                                                    new_positions) ],
              trade_id |-> id, ret |-> LoggerSuccess, risk_check |-> risk_check ]

\* mutant: the trade id stays in open_trades
close_open_trade_keeps_id(L, trade_id, exit_reason, exit_price, slip) ==
    LET trade == L.trades[trade_id]
        price == IF exit_price # None THEN exit_price[1]
                 ELSE IF exit_reason = "sl" THEN trade.stop_loss
                 ELSE IF exit_reason = "tp" /\ trade.take_profits # <<>>
                      THEN trade.take_profits[1]
                 ELSE Slipped(trade.entry_price, 10000 + slip)
        closed == Trade_close(trade, price, exit_reason)
        pf1    == Portfolio_update_from_trade(L.portfolio, closed)
        margin_released == RoundDiv(FMul(closed.quantity, closed.entry_price), closed.leverage)
        new_positions   == DictRemove(L.positions, trade.symbol)
    IN  [ L |-> [ trades      |-> [L.trades EXCEPT ![trade_id] = closed],
                  open_trades |-> L.open_trades,
                  positions   |-> new_positions,
                  portfolio   |-> ReleaseMargin(pf1, margin_released, new_positions) ],
          ret |-> LoggerSuccess ]

\* TradingEngine.close_trade from "Simulate exit price" on, for a trade that
\* has a position: exit_price is <<>> or <<price>>, slip is the value
\* random.uniform(-0.005, 0.005) returns, in 1/10000
close_open_trade(L, trade_id, exit_reason, exit_price, slip) ==
    LET trade == L.trades[trade_id]
        price == IF exit_price # None THEN exit_price[1]
                 ELSE IF exit_reason = "sl" THEN trade.stop_loss
                 ELSE IF exit_reason = "tp" /\ trade.take_profits # <<>>
                      THEN trade.take_profits[1]
                 ELSE Slipped(trade.entry_price, 10000 + slip)
        closed == Trade_close(trade, price, exit_reason)
        pf1    == Portfolio_update_from_trade(L.portfolio, closed)
        margin_released == RoundDiv(FMul(closed.quantity, closed.entry_price), closed.leverage)
        new_positions   == DictRemove(L.positions, trade.symbol)
    IN  [ L |-> [ trades      |-> [L.trades EXCEPT ![trade_id] = closed],
                  open_trades |-> RemoveFirst(L.open_trades, trade_id),
                  positions   |-> new_positions,
                  portfolio   |-> ReleaseMargin(pf1, margin_released, new_positions) ],
          ret |-> LoggerSuccess ]

\* mutant: the already-closed check is missing
close_trade_no_closed_check(L, trade_id, exit_reason, exit_price, slip) ==
    IF trade_id \notin 1..Len(L.trades) THEN [L |-> L, ret |-> "False"]
    ELSE IF L.trades[trade_id].symbol \notin DOMAIN L.positions
    THEN [L |-> [L EXCEPT !.trades[trade_id].status = "closed"], ret |-> "True"]
    ELSE close_open_trade(L, trade_id, exit_reason, exit_price, slip)

\* TradingEngine.close_trade
close_trade(L, trade_id, exit_reason, exit_price, slip) ==
    IF trade_id \notin 1..Len(L.trades) THEN [L |-> L, ret |-> "False"]
    ELSE IF L.trades[trade_id].status = "closed" THEN [L |-> L, ret |-> "False"]
    ELSE IF L.trades[trade_id].symbol \notin DOMAIN L.positions
    THEN [L |-> [L EXCEPT !.trades[trade_id].status = "closed"], ret |-> "True"]
    ELSE close_open_trade(L, trade_id, exit_reason, exit_price, slip)

\* TradingEngine.update_prices: prices is a dict symbol -> price
update_prices(L, prices) ==
    LET new_positions ==
            [s \in DOMAIN L.positions |->
                IF s \in DOMAIN prices
                THEN Position_update_pnl(L.positions[s], prices[s])
                ELSE L.positions[s]]
    IN  [ L |-> [L EXCEPT !.positions = new_positions,
                          !.portfolio.total_positions_value = PositionsValue(new_positions)],
          ret |-> "None" ]

\* which close, if any, the price triggers for the trade
StopOrTarget(trade, new_price) ==
    IF trade.side = "long"
    THEN IF trade.stop_loss # 0 /\ new_price <= trade.stop_loss THEN "sl"
         ELSE IF trade.take_profits # <<>> /\ new_price >= trade.take_profits[1] THEN "tp"
         ELSE "none"
    ELSE IF trade.stop_loss # 0 /\ new_price >= trade.stop_loss THEN "sl"
         ELSE IF trade.take_profits # <<>> /\ new_price <= trade.take_profits[1] THEN "tp"
         ELSE "none"

RECURSIVE CheckStops(_, _, _, _)
\* the loop "for trade_id in self.open_trades" of simulate_price_update, at
\* list index i; it ends when a close_trade call raises
CheckStops(L, i, symbol, new_price) ==
    IF i > Len(L.open_trades) THEN [L |-> L, ret |-> "None"]
    ELSE
    LET tid   == L.open_trades[i]
        trade == L.trades[tid]
        hit   == StopOrTarget(trade, new_price)
    IN  IF trade.symbol # symbol \/ hit = "none"
        THEN CheckStops(L, i + 1, symbol, new_price)
        ELSE
        LET r == close_trade(L, tid, hit,
                             Some(IF hit = "sl" THEN trade.stop_loss
                                  ELSE trade.take_profits[1]), 0)
        IN  IF r.ret = LoggerSuccess THEN r
            ELSE CheckStops(r.L, i + 1, symbol, new_price)

\* TradingEngine.simulate_price_update: change_percent is the argument or the
\* value random.uniform(-2, 2) returns
simulate_price_update(L, symbol, change_percent) ==
    IF symbol \notin DOMAIN L.positions THEN [L |-> L, ret |-> "None"]
    ELSE
    LET position  == L.positions[symbol]
        new_price == FMul(position.current_price, Num(1) + FDiv(change_percent, Num(100)))
        L1 == [L EXCEPT !.positions[symbol] = Position_update_pnl(position, new_price)]
    IN  CheckStops(L1, 1, symbol, new_price)

-----------------------------------------------------------------------------
(* AutoExecuteEngine (services/auto_execute_alpaca.py)                      *)

\* RiskConfig defaults
DefaultRiskConfig ==
    [ max_risk_per_trade    |-> 2,
      max_position_size     |-> 20,
      min_risk_reward       |-> 150,
      default_trade_amount  |-> Num(100),
      scale_with_confidence |-> TRUE ]

\* AutoExecuteConfig(max_daily_trades = ...), the other fields at their defaults
AutoExecuteConfig(max_daily_trades) ==
    [ enabled             |-> TRUE,
      min_confidence      |-> 60,
      min_ai_score        |-> Num(60),
      require_ai_approval |-> TRUE,
      allowed_sources     |-> {"telegram", "telegram_channel", "telegram_bot", "webhook", "rss"},
      max_daily_trades    |-> max_daily_trades,
      max_open_positions  |-> 5,
      cooldown_minutes    |-> 5,
      risk                |-> DefaultRiskConfig ]

\* AutoExecuteEngine.max_consecutive_errors
max_consecutive_errors == 5

MinutesPerDay == 24 * 60

\* datetime.date() of a time in minutes
Date(t) == t \div MinutesPerDay

\* str.lower() on the source names that occur
Lower(source) ==
    CASE source = "Telegram" -> "telegram"
      [] source = "MANUAL"   -> "manual"
      [] OTHER               -> source

\* s in source (substring), on the source names that occur
IsSubstring(s, source) ==
    \/ s = source
    \/ <<s, source>> \in { <<"telegram", "telegram_channel">>,
                           <<"telegram", "telegram_bot">>,
                           <<"telegram", "my_telegram">>,
                           <<"rss", "rss_feed">> }

\* _check_daily_reset that records the new date but keeps the counter
check_daily_reset_keeps_counter(daily, reset_date, t) ==
    IF Date(t) > reset_date
    THEN [daily_trades |-> daily, last_reset_date |-> Date(t)]
    ELSE [daily_trades |-> daily, last_reset_date |-> reset_date]

\* AutoExecuteEngine._check_daily_reset
check_daily_reset(daily, reset_date, t) ==
    IF Date(t) > reset_date
    THEN [daily_trades |-> 0, last_reset_date |-> Date(t)]
    ELSE [daily_trades |-> daily, last_reset_date |-> reset_date]

\* _pre_flight_checks without the cooldown check
pre_flight_checks_no_cooldown(cfg, signal, daily, trade_times, errors, t) ==
    LET source == Lower(signal.source)
    IN  IF daily >= cfg.max_daily_trades THEN "daily_limit"
        ELSE IF /\ source # ""
                /\ cfg.allowed_sources # {}
                /\ ~ \E s \in cfg.allowed_sources : IsSubstring(s, source)
             THEN "source_not_allowed"
        ELSE IF signal.confidence < cfg.min_confidence THEN "low_confidence"
        ELSE IF errors >= max_consecutive_errors THEN "circuit_breaker"
        ELSE "passed"

\* _pre_flight_checks with the circuit breaker tripping one failure late
pre_flight_checks_breaker_late(cfg, signal, daily, trade_times, errors, t) ==
    LET source == Lower(signal.source)
    IN  IF daily >= cfg.max_daily_trades THEN "daily_limit"
        ELSE IF /\ source # ""
                /\ cfg.allowed_sources # {}
                /\ ~ \E s \in cfg.allowed_sources : IsSubstring(s, source)
             THEN "source_not_allowed"
        ELSE IF signal.confidence < cfg.min_confidence THEN "low_confidence"
        ELSE IF /\ signal.asset \in DOMAIN trade_times
                /\ t - trade_times[signal.asset] < cfg.cooldown_minutes
             THEN "cooldown"
        ELSE IF errors > max_consecutive_errors THEN "circuit_breaker"
        ELSE "passed"

\* AutoExecuteEngine._pre_flight_checks: the reason of the first failing check
pre_flight_checks(cfg, signal, daily, trade_times, errors, t) ==
    LET source == Lower(signal.source)
    IN  IF daily >= cfg.max_daily_trades THEN "daily_limit"
        ELSE IF /\ source # ""
                /\ cfg.allowed_sources # {}
                /\ ~ \E s \in cfg.allowed_sources : IsSubstring(s, source)
             THEN "source_not_allowed"
        ELSE IF signal.confidence < cfg.min_confidence THEN "low_confidence"
        ELSE IF /\ signal.asset \in DOMAIN trade_times
                /\ t - trade_times[signal.asset] < cfg.cooldown_minutes
             THEN "cooldown"
        ELSE IF errors >= max_consecutive_errors THEN "circuit_breaker"
        ELSE "passed"

\* RiskConfig.score_multipliers, scanned from the highest threshold down
ScoreMultiplier(score) ==
    IF score >= Num(90) THEN 200
    ELSE IF score >= Num(80) THEN 150
    ELSE IF score >= Num(70) THEN 100
    ELSE IF score >= Num(60) THEN 50
    ELSE 100

\* AutoExecuteEngine._check_risk_management.  balance_result and
\* positions_result are what broker.get_balance() and broker.get_positions()
\* gave: None when the call raised, else the total equity / the number of
\* open positions.  Without a broker the paper default of 10000 is used.
check_risk_management(cfg, has_broker, signal, ai_analysis, balance_result, positions_result) ==
    IF has_broker /\ balance_result = None
    THEN [approved |-> FALSE, reason |-> "balance_unavailable", position_size |-> 0]
    ELSE IF /\ has_broker
            /\ positions_result # None
            /\ positions_result[1] >= cfg.max_open_positions
    THEN [approved |-> FALSE, reason |-> "max_positions", position_size |-> 0]
    ELSE
    LET total_equity == IF has_broker THEN balance_result[1] ELSE Num(10000)
        base_amount  ==
            IF cfg.risk.scale_with_confidence /\ ai_analysis # None
            THEN FMul(cfg.risk.default_trade_amount, ScoreMultiplier(ai_analysis[1].score))
            ELSE cfg.risk.default_trade_amount
        max_position  == FMul(total_equity, cfg.risk.max_position_size)
        position_size == Min(base_amount, max_position)
        risk          == Abs(signal.entry - signal.stop_loss)
        reward        == Abs(signal.take_profits[1] - signal.entry)
    IN  IF /\ signal.entry # 0
           /\ signal.stop_loss # 0
           /\ signal.take_profits # <<>>
           /\ risk > 0
           /\ FDiv(reward, risk) < cfg.risk.min_risk_reward
        THEN [approved |-> FALSE, reason |-> "low_rr", position_size |-> 0]
        ELSE [approved |-> TRUE, reason |-> "none",
              position_size |-> Max(position_size, Num(10))]

\* the symbol _execute_on_alpaca sends: '/' removed, USDT replaced by USD
AlpacaSymbol(asset) ==
    CASE asset = "BTC/USDT" -> "BTCUSD"
      [] asset = "ETH/USDT" -> "ETHUSD"
      [] OTHER              -> asset

\* TradeRecord(...) appended by process_signal after a successful order
TradeRecord(signal, position_size, ai_analysis, t) ==
    [ signal_id |-> signal.id,
      symbol    |-> AlpacaSymbol(signal.asset),
      side      |-> signal.action,
      amount    |-> position_size,
      ai_score  |-> IF ai_analysis # None THEN ai_analysis[1].score ELSE 0,
      timestamp |-> t ]

-----------------------------------------------------------------------------
(* Signal (models/signals.py) and the paper AutoExecuteEngine               *)
(* (services/auto_execute.py)                                               *)

\* SignalSource
SignalSources == {"telegram", "email", "webhook", "manual", "ai"}

\* SignalAction
SignalActions == {"long", "short", "buy", "sell"}

\* str.strip().upper() on the asset names that occur
Upper(asset) ==
    CASE asset = "btc/usdt"  -> "BTC/USDT"
      [] asset = " eth/usdt" -> "ETH/USDT"
      [] OTHER               -> asset

\* sorted(S): the elements of a set of numbers in ascending order
RECURSIVE Sorted(_)
Sorted(S) ==
    IF S = {} THEN <<>>
    ELSE LET m == CHOOSE x \in S : \A y \in S : x <= y
         IN  <<m>> \o Sorted(S \ {m})

\* Signal.validate_take_profits
validate_take_profits(v) ==
    IF v = <<>> THEN v ELSE Sorted({v[i] : i \in DOMAIN v})

\* Signal(**fields): None when pydantic's validation raises, else the Signal.
\* Optional fields are <<>> or <<value>>.
Signal(source, asset, action, entry, stop_loss, take_profits, leverage, confidence) ==
    IF \/ source \notin SignalSources
       \/ asset = None
       \/ action \notin SignalActions
       \/ entry = None
       \/ stop_loss = None
       \/ leverage < 1 \/ leverage > 125
       \/ confidence < 0 \/ confidence > SCALE
    THEN None
    ELSE Some([ source |-> source, asset |-> Upper(asset[1]), action |-> action,
                entry |-> entry[1], stop_loss |-> stop_loss[1],
                take_profits |-> validate_take_profits(take_profits),
                leverage |-> leverage, confidence |-> confidence ])

\* AutoExecuteConfig of the paper orchestrator, allowed_sources as
\* __post_init__ sets it
PaperAutoExecuteConfig(enabled, max_daily_trades) ==
    [ enabled                 |-> enabled,
      min_confidence          |-> 60,
      min_ai_score            |-> Num(60),
      require_ai_approval     |-> TRUE,
      max_daily_trades        |-> max_daily_trades,
      allowed_sources         |-> {"telegram", "telegram_channel", "telegram_bot", "webhook"},
      reduce_size_below_score |-> Num(70),
      size_reduction_factor   |-> 50 ]

\* the paper process_signal's daily reset: any change of date resets
paper_daily_reset(daily, reset_date, t) ==
    IF Date(t) # reset_date
    THEN [daily_trades |-> 0, last_reset_date |-> Date(t)]
    ELSE [daily_trades |-> daily, last_reset_date |-> reset_date]

\* the paper process_signal's checks before the analyzer: the reason of the
\* first failing one
paper_pre_checks(cfg, signal, daily) ==
    IF ~cfg.enabled THEN "disabled"
    ELSE IF daily >= cfg.max_daily_trades THEN "daily_limit"
    ELSE IF cfg.allowed_sources # {} /\ signal.source \notin cfg.allowed_sources
         THEN "source_not_allowed"
    ELSE IF signal.confidence < cfg.min_confidence THEN "low_confidence"
    ELSE "passed"

\* the paper process_signal's position size: the reduction factor when the
\* score is below reduce_size_below_score, else None
paper_position_size(cfg, ai_analysis) ==
    IF ai_analysis # None /\ ai_analysis[1].score < cfg.reduce_size_below_score
    THEN Some(cfg.size_reduction_factor) ELSE None

-----------------------------------------------------------------------------
(* ParsedSignal (models/signals.py) and SignalParser._calculate_confidence  *)
(* (services/signal_parser.py)                                              *)

\* ParsedSignal(raw_text=text) with the extracted fields assigned; optional
\* fields are <<>> or <<value>>
ParsedSignal(asset, action, entry, stop_loss, take_profits, leverage) ==
    [ confidence |-> 0, asset |-> asset, action |-> action, entry |-> entry,
      stop_loss |-> stop_loss, take_profits |-> take_profits, leverage |-> leverage ]

\* Python's truth value of an optional number: None and 0 are false
Truthy(v) == v # None /\ v[1] # 0

\* all(tp > entry ...) resp. all(tp < entry ...) of _calculate_confidence
TargetsBeyondEntry(p) ==
    IF p.action = Some("long")
    THEN \A i \in DOMAIN p.take_profits : p.take_profits[i] > p.entry[1]
    ELSE IF p.action = Some("short")
    THEN \A i \in DOMAIN p.take_profits : p.take_profits[i] < p.entry[1]
    ELSE FALSE

\* the score _calculate_confidence adds up before dividing by max_score
confidence_score(p) ==
      (IF p.asset # None THEN Num(2) ELSE 0)
    + (IF p.action # None THEN Num(2) ELSE 0)
    + (IF Truthy(p.entry) THEN Num(2) ELSE 0)
    + (IF Truthy(p.stop_loss) THEN Num(2) ELSE 0)
    + (IF p.take_profits # <<>> THEN Num(1) ELSE 0)
    + (IF Len(p.take_profits) >= 2 THEN Num(1) \div 2 ELSE 0)
    + (IF Truthy(p.leverage) THEN Num(1) \div 2 ELSE 0)
    + (IF Truthy(p.entry) /\ Truthy(p.stop_loss)
          /\ \/ p.action = Some("long") /\ p.stop_loss[1] < p.entry[1]
             \/ p.action = Some("short") /\ p.stop_loss[1] > p.entry[1]
       THEN Num(1) \div 2 ELSE 0)
    + (IF Truthy(p.entry) /\ p.take_profits # <<>> /\ TargetsBeyondEntry(p)
       THEN Num(1) \div 2 ELSE 0)

calculate_confidence_unclamped(p) ==
    FDiv(confidence_score(p), Num(10))

\* SignalParser._calculate_confidence
calculate_confidence(p) ==
    Min(FDiv(confidence_score(p), Num(10)), Num(1))

\* ParsedSignal.is_valid
is_valid(p) ==
    LET required == <<p.asset, p.action, p.entry, p.stop_loss>>
    IN  \A i \in DOMAIN required : required[i] # None

\* ParsedSignal.to_signal
to_signal(p, source) ==
    IF ~is_valid(p) THEN None
    ELSE Signal(source, p.asset,
                IF p.action[1] \in {"long", "buy"} THEN "long" ELSE "short",
                p.entry, p.stop_loss, p.take_profits,
                IF Truthy(p.leverage) THEN p.leverage[1] ELSE 1,
                p.confidence)

-----------------------------------------------------------------------------
(* Bounds and inputs *)

MaxTrades == 2
MaxTicks == 1

Symbols == {"BTC/USDT", "ETH/USDT"}

Sig(asset, action, entry, stop_loss, take_profits, leverage) ==
    [ asset |-> asset, action |-> action, entry |-> entry, stop_loss |-> stop_loss,
      take_profits |-> take_profits, leverage |-> leverage ]

\* signals as Signal(...) builds them: asset upper case, take-profits sorted
Signals ==
    { Sig("BTC/USDT", "long",  Num(100), Num(97),  <<Num(110), Num(120)>>, 1),
      Sig("ETH/USDT", "short", Num(100), Num(105), <<Num(80), Num(90)>>, 2),
      Sig("ETH/USDT", "long",  Num(100), Num(100), <<Num(110)>>, 1),
      Sig("BTC/USDT", "long",  Num(100), Num(99),  <<Num(101)>>, 1) }

\* TradeCreate.quantity: absent, or the caller's quantity
CustomQuantities == {None, Some(Num(1)), Some(Num(150))}

\* values of random.uniform(0.9995, 1.0005), in 1/10000
SlippageFactors == {9995, 10005}

\* values of random.uniform(-0.005, 0.005), in 1/10000
CloseSlippages == {-50, 50}

\* ExitReason: the other members behave as "manual" in close_trade
ExitReasons == {"tp", "sl", "manual"}

\* price dicts passed to update_prices
PriceDicts ==
    { [s \in S |-> p] : S \in {{"BTC/USDT"}, Symbols}, p \in {Num(89), Num(111)} }

\* change_percent of simulate_price_update, the last as random.uniform(-2, 2)
ChangePercents == {Num(-11), Num(11), Num(2)}

SettingsChoices ==
    { DefaultRiskSettings,
      [DefaultRiskSettings EXCEPT !.max_open_positions = 1] }

NoRiskCall == [called |-> FALSE]

\* no text was parsed
NoParse == [pc |-> "none"]

\* inputs of the validate_trade calls checked on their own
RiskSettingsChoices ==
    { [DefaultRiskSettings EXCEPT !.max_open_positions = m,
                                  !.max_risk_per_trade_percent = r,
                                  !.max_portfolio_risk_percent = p] :
        m \in {1, 2}, r \in {Num(1), Num(2)}, p \in {Num(3), Num(10)} }

RiskSignals ==
    { Sig(a, d, Num(100), st, tp, lev) :
        a \in Symbols, d \in {"long", "short"},
        st \in {Num(95), Num(97), Num(99), Num(100), Num(105)},
        tp \in {<<>>, <<Num(110)>>}, lev \in {1, 2} }

RiskBalances == {Num(10000), Num(9999) + 99, Num(333), 0, Num(-50)}

OpenPosition(symbol, stop_loss, quantity) ==
    [ symbol |-> symbol, side |-> "long", entry_price |-> Num(100), quantity |-> quantity,
      leverage |-> 1, current_price |-> Num(100), unrealized_pnl |-> 0,
      unrealized_pnl_percent |-> 0, stop_loss |-> stop_loss, take_profits |-> <<>> ]

\* dicts of open positions, one per symbol
RiskPositions ==
    { [s \in S |-> OpenPosition(s, Num(95), Num(q))] : S \in SUBSET Symbols, q \in {40, 100} }

\* AutoExecuteConfig.max_daily_trades the orchestrator is constructed with
MaxDailyTrades == 2

\* the clock stops here
MaxNow == 5

\* the coroutines that may run process_signal at the same time
Procs == {1, 2}

ASig(id, asset, source, confidence) ==
    [ id |-> id, asset |-> asset, action |-> "long", source |-> source,
      confidence |-> confidence, entry |-> Num(100), stop_loss |-> Num(95),
      take_profits |-> <<Num(110)>> ]

\* the same signal with its first target at 105: reward / risk = 1.0
LowReward(signal) == [signal EXCEPT !.take_profits = <<Num(105)>>]

\* signal dicts handed to process_signal
AlpacaSignals ==
    { ASig("s1", "BTC/USDT", "telegram", 80),
      ASig("s2", "ETH/USDT", "telegram", 80),
      ASig("s3", "BTC/USDT", "Telegram", 50),
      ASig("s4", "ETH/USDT", "manual", 80),
      LowReward(ASig("s5", "ETH/USDT", "telegram", 80)),
      ASig("s6", "BTC/USDT", "", 80) }

\* what ai_analyzer.analyze_signal gives: None when it raised
AnalyzerOutcomes ==
    { None,
      Some([score |-> Num(85), should_execute |-> TRUE]),
      Some([score |-> Num(55), should_execute |-> TRUE]),
      Some([score |-> Num(85), should_execute |-> FALSE]) }

\* what broker.get_balance() gives: None when it raised, else the total equity
BalanceResults == {None, Some(Num(10000))}

\* what broker.get_positions() gives: None when it raised, else the count
PositionsResults == {None, Some(0), Some(5)}

\* how _execute_on_alpaca ends: the order is placed, it returns an error
\* result, or initialize() raises
ExecutorOutcomes == {"success", "failed", "raised"}

IdleProc ==
    [ pc |-> "idle", signal |-> None, ai_analysis |-> None, position_size |-> 0,
      initializing |-> FALSE ]

NoResult == [n |-> 0, signal |-> None, executed |-> FALSE, reason |-> "none"]

\* AutoExecuteEngine.__init__ with the default configuration, no call made
AlpacaIdle ==
    /\ config = AutoExecuteConfig(MaxDailyTrades)
    /\ ai_analyzer = TRUE
    /\ broker = FALSE
    /\ daily_trades = 0
    /\ now = 0
    /\ last_reset_date = 0
    /\ last_trade_time = <<>>
    /\ consecutive_errors = 0
    /\ trade_history = <<>>
    /\ procs = [p \in Procs |-> IdleProc]
    /\ returned = NoResult

\* the clock stops on this day
MaxDay == 1

PSig(id, source, confidence, signal) ==
    [ id |-> id, source |-> source, confidence |-> confidence, asset |-> signal.asset,
      action |-> signal.action, entry |-> signal.entry, stop_loss |-> signal.stop_loss,
      take_profits |-> signal.take_profits, leverage |-> signal.leverage ]

\* signal dicts handed to the paper process_signal
PaperSignals ==
    { PSig("p1", "telegram", 80,
           Sig("BTC/USDT", "long", Num(100), Num(97), <<Num(120), Num(110), Num(120)>>, 1)),
      PSig("p2", "webhook", 80,
           Sig(" eth/usdt", "short", Num(100), Num(105), <<Num(90)>>, 2)),
      PSig("p3", "telegram_channel", 80,
           Sig("BTC/USDT", "long", Num(100), Num(97), <<Num(110)>>, 1)),
      PSig("p4", "", 50,
           Sig("ETH/USDT", "long", Num(100), Num(100), <<Num(110)>>, 1)) }

\* what AISignalAnalyzer.analyze_signal gives; it catches its own failures
PaperAnalyzerOutcomes ==
    { Some([score |-> Num(85), should_execute |-> TRUE]),
      Some([score |-> Num(65), should_execute |-> TRUE]),
      Some([score |-> Num(55), should_execute |-> TRUE]),
      Some([score |-> Num(85), should_execute |-> FALSE]) }

-----------------------------------------------------------------------------
(* The paper ledger as a state machine: one action per TradingEngine call.  *)
(* The calls have no await, so each runs atomically on the event loop.      *)

\* a finished call: the operation, its trade id (the argument of close_trade, the
\* id execute_signal created, else 0), what it returned or raised, and the
\* rejection reason execute_signal logged
Call(op, trade_id, ret, reason) ==
    [op |-> op, trade_id |-> trade_id, ret |-> ret, reason |-> reason]

LedgerInit ==
    /\ settings = DefaultRiskSettings
    /\ portfolio = NewPortfolio(InitialBalance)
    /\ positions = <<>>
    /\ trades = <<>>
    /\ open_trades = <<>>
    /\ last_call = Call("init", 0, "None", "none")
    /\ ticks = 0

SetLedger(L) ==
    /\ positions' = L.positions
    /\ trades' = L.trades
    /\ open_trades' = L.open_trades
    /\ portfolio' = L.portfolio

ExecuteSignal ==
    \E signal \in Signals, custom_quantity \in CustomQuantities, slip \in SlippageFactors :
        /\ Len(trades) < MaxTrades
        /\ LET r == execute_signal(Ledger, settings, signal, custom_quantity, slip)
           IN  /\ SetLedger(r.L)
               /\ last_call' = Call("execute_signal", r.trade_id, r.ret, r.risk_check.reason)
        /\ UNCHANGED <<settings, ticks, pureVars, alpacaVars>>

CloseTrade ==
    \E trade_id \in 1..(Len(trades) + 1), exit_reason \in ExitReasons, slip \in CloseSlippages :
        /\ LET r == close_trade(Ledger, trade_id, exit_reason, None, slip)
           IN  /\ SetLedger(r.L)
               /\ last_call' = Call("close_trade", trade_id, r.ret, "none")
        /\ UNCHANGED <<settings, ticks, pureVars, alpacaVars>>

UpdatePrices ==
    \E prices \in PriceDicts :
        /\ ticks < MaxTicks
        /\ ticks' = ticks + 1
        /\ LET r == update_prices(Ledger, prices)
           IN  /\ SetLedger(r.L)
               /\ last_call' = Call("update_prices", 0, r.ret, "none")
        /\ UNCHANGED <<settings, pureVars, alpacaVars>>

SimulatePriceUpdate ==
    \E symbol \in Symbols, change_percent \in ChangePercents :
        /\ ticks < MaxTicks
        /\ ticks' = ticks + 1
        /\ LET r == simulate_price_update(Ledger, symbol, change_percent)
           IN  /\ SetLedger(r.L)
               /\ last_call' = Call("simulate_price_update", 0, r.ret, "none")
        /\ UNCHANGED <<settings, pureVars, alpacaVars>>

UpdateSettings ==
    \E rs \in SettingsChoices :
        /\ rs # settings
        /\ settings' = rs
        /\ last_call' = Call("update_settings", 0, "None", "none")
        /\ UNCHANGED <<portfolio, positions, trades, open_trades, ticks, pureVars, alpacaVars>>

vars == <<ledgerVars, pureVars, alpacaVars>>

LedgerNext ==
    \/ ExecuteSignal
    \/ CloseTrade
    \/ UpdatePrices
    \/ SimulatePriceUpdate
    \/ UpdateSettings

\* the ledger after construction; no orchestrator call is made
LedgerStart ==
    /\ LedgerInit
    /\ risk_call = NoRiskCall
    /\ parsed = NoParse
    /\ AlpacaIdle

LedgerSpec == LedgerStart /\ [][LedgerNext]_vars

-----------------------------------------------------------------------------
(* RiskManager.validate_trade on its own: the inputs are drawn at the start, *)
(* the action applies the function to them.                                 *)

RiskInit ==
    /\ LedgerInit
    /\ AlpacaIdle
    /\ parsed = NoParse
    /\ \E rs \in RiskSettingsChoices, signal \in RiskSignals,
          balance \in RiskBalances, current_positions \in RiskPositions :
          risk_call = [ called |-> FALSE, rs |-> rs, signal |-> signal, balance |-> balance,
                        current_positions |-> current_positions, result |-> None ]

ValidateTrade ==
    /\ ~risk_call.called
    /\ risk_call' =
          [risk_call EXCEPT
              !.called = TRUE,
              !.result = Some(validate_trade(risk_call.rs, risk_call.signal, risk_call.balance,
                                             risk_call.current_positions))]
    /\ UNCHANGED <<ledgerVars, alpacaVars, parsed>>

RiskNext == ValidateTrade

RiskSpec == RiskInit /\ [][RiskNext]_vars

-----------------------------------------------------------------------------
(* AutoExecuteEngine.process_signal as concurrent coroutines.  A coroutine  *)
(* runs atomically from one await to the next; it waits for the analyzer,   *)
(* for the broker's balance and positions, and for the order.  The awaited  *)
(* notifications go through NotificationService.send, which logs a failed   *)
(* delivery and never raises; they touch no state of the orchestrator and   *)
(* are part of the step that returns.                                       *)

\* AutoExecuteEngine.__init__ and initialize()
AlpacaInit ==
    /\ config \in { AutoExecuteConfig(MaxDailyTrades),
                    [AutoExecuteConfig(MaxDailyTrades) EXCEPT !.enabled = FALSE] }
    /\ ai_analyzer \in BOOLEAN
    /\ broker \in BOOLEAN
    /\ daily_trades = 0
    /\ now = 0
    /\ last_reset_date = Date(now)
    /\ last_trade_time = <<>>
    /\ consecutive_errors = 0
    /\ trade_history = <<>>
    /\ procs = [p \in Procs |-> IdleProc]
    /\ returned = NoResult

\* process_signal returns result
Return(signal, executed, reason) ==
    returned' = [ n |-> 1 - returned.n, signal |-> Some(signal),
                  executed |-> executed, reason |-> reason ]

\* mutant: a signal the risk check rejects is handed to the executor all the same
RiskStep_rejection_goes_on(p, signal, ai_analysis, balance_result, positions_result) ==
    LET risk_check == check_risk_management(config, broker, signal, ai_analysis,
                                            balance_result, positions_result)
    IN  /\ procs' = [procs EXCEPT ![p] =
               [ pc |-> "placing", signal |-> Some(signal), ai_analysis |-> ai_analysis,
                 position_size |-> risk_check.position_size, initializing |-> ~broker ]]
        /\ broker' = TRUE
        /\ IF ~risk_check.approved
           THEN Return(signal, FALSE, risk_check.reason)
           ELSE UNCHANGED returned

\* process_signal from the risk check to the first await of
\* _execute_on_alpaca: a rejection returns, an approved signal goes on to the
\* executor, which calls initialize() first when no broker is set
RiskStep(p, signal, ai_analysis, balance_result, positions_result) ==
    LET risk_check == check_risk_management(config, broker, signal, ai_analysis,
                                            balance_result, positions_result)
    IN  IF ~risk_check.approved
        THEN /\ Return(signal, FALSE, risk_check.reason)
             /\ procs' = [procs EXCEPT ![p] = IdleProc]
             /\ UNCHANGED broker
        ELSE /\ procs' = [procs EXCEPT ![p] =
                    [ pc |-> "placing", signal |-> Some(signal), ai_analysis |-> ai_analysis,
                      position_size |-> risk_check.position_size, initializing |-> ~broker ]]
             /\ broker' = TRUE
             /\ UNCHANGED returned

\* process_signal after the quality gate: with a broker it awaits the
\* balance, without one the risk check needs no await
AfterGate(p, signal, ai_analysis) ==
    IF broker
    THEN /\ procs' = [procs EXCEPT ![p] =
                [IdleProc EXCEPT !.pc = "risk", !.signal = Some(signal),
                                 !.ai_analysis = ai_analysis]]
         /\ UNCHANGED <<returned, broker>>
    ELSE RiskStep(p, signal, ai_analysis, None, None)

\* process_signal from the call to the first await: the enabled check, the
\* daily reset and the pre-flight checks
process_signal(signal) ==
    \E p \in Procs :
        /\ procs[p].pc = "idle"
        /\ IF ~config.enabled
           THEN /\ Return(signal, FALSE, "disabled")
                /\ UNCHANGED <<daily_trades, last_reset_date, procs, broker>>
           ELSE LET reset == check_daily_reset(daily_trades, last_reset_date, now)
                    pre   == pre_flight_checks(config, signal, reset.daily_trades,
                                               last_trade_time, consecutive_errors, now)
                IN  /\ daily_trades' = reset.daily_trades
                    /\ last_reset_date' = reset.last_reset_date
                    /\ IF pre # "passed"
                       THEN /\ Return(signal, FALSE, pre)
                            /\ UNCHANGED <<procs, broker>>
                       ELSE IF config.require_ai_approval /\ ai_analyzer
                       THEN /\ procs' = [procs EXCEPT ![p] =
                                   [IdleProc EXCEPT !.pc = "analyze", !.signal = Some(signal)]]
                            /\ UNCHANGED <<returned, broker>>
                       ELSE AfterGate(p, signal, None)
        /\ UNCHANGED <<config, ai_analyzer, last_trade_time, consecutive_errors,
                       trade_history, now, ledgerVars, pureVars>>

\* a caller hands any signal to process_signal
ProcessSignal ==
    \E signal \in AlpacaSignals : process_signal(signal)

\* ai_analyzer.analyze_signal returns or raises
AnalyzerGives(p, outcome) ==
    /\ procs[p].pc = "analyze"
    /\ LET signal == procs[p].signal[1]
       IN  IF outcome = None
           THEN /\ Return(signal, FALSE, "ai_failed")
                /\ procs' = [procs EXCEPT ![p] = IdleProc]
                /\ UNCHANGED broker
           ELSE IF ~outcome[1].should_execute
           THEN /\ Return(signal, FALSE, "ai_rejected")
                /\ procs' = [procs EXCEPT ![p] = IdleProc]
                /\ UNCHANGED broker
           ELSE IF outcome[1].score < config.min_ai_score
           THEN /\ Return(signal, FALSE, "ai_score_low")
                /\ procs' = [procs EXCEPT ![p] = IdleProc]
                /\ UNCHANGED broker
           ELSE AfterGate(p, signal, outcome)
    /\ UNCHANGED <<config, ai_analyzer, daily_trades, last_reset_date, last_trade_time,
                   consecutive_errors, trade_history, now, ledgerVars, pureVars>>

AnalyzerReturns ==
    \E p \in Procs, outcome \in AnalyzerOutcomes : AnalyzerGives(p, outcome)

\* _check_risk_management with the broker's answers
BrokerAnswers(p, balance_result, positions_result) ==
    /\ procs[p].pc = "risk"
    /\ RiskStep(p, procs[p].signal[1], procs[p].ai_analysis, balance_result, positions_result)
    /\ UNCHANGED <<config, ai_analyzer, daily_trades, last_reset_date, last_trade_time,
                   consecutive_errors, trade_history, now, ledgerVars, pureVars>>

RiskManagement ==
    \E p \in Procs, balance_result \in BalanceResults, positions_result \in PositionsResults :
        BrokerAnswers(p, balance_result, positions_result)

\* _execute_on_alpaca returned success and process_signal records the trade
\* without resetting the consecutive-error counter
RecordSuccess_keeps_errors(p) ==
    LET signal == procs[p].signal[1]
    IN  /\ daily_trades' = daily_trades + 1
        /\ last_trade_time' = DictPut(last_trade_time, signal.asset, now)
        /\ UNCHANGED consecutive_errors
        /\ trade_history' = Append(trade_history,
                TradeRecord(signal, procs[p].position_size, procs[p].ai_analysis, now))
        /\ Return(signal, TRUE, "executed")

\* _execute_on_alpaca returned success and process_signal records the trade
RecordSuccess(p) ==
    LET signal == procs[p].signal[1]
    IN  /\ daily_trades' = daily_trades + 1
        /\ last_trade_time' = DictPut(last_trade_time, signal.asset, now)
        /\ consecutive_errors' = 0
        /\ trade_history' = Append(trade_history,
                TradeRecord(signal, procs[p].position_size, procs[p].ai_analysis, now))
        /\ Return(signal, TRUE, "executed")

\* mutant: a failed attempt starts the asset's cooldown
RecordFailure_starts_cooldown(p, outcome) ==
    /\ consecutive_errors' = consecutive_errors + 1
    /\ Return(procs[p].signal[1], FALSE,
              IF outcome = "failed" THEN "order_failed" ELSE "execution_error")
    /\ last_trade_time' = DictPut(last_trade_time, procs[p].signal[1].asset, now)
    /\ UNCHANGED <<daily_trades, trade_history>>

\* process_signal when order_result["success"] is false ("failed") and when
\* _execute_on_alpaca raised
RecordFailure(p, outcome) ==
    /\ consecutive_errors' = consecutive_errors + 1
    /\ Return(procs[p].signal[1], FALSE,
              IF outcome = "failed" THEN "order_failed" ELSE "execution_error")
    /\ UNCHANGED <<daily_trades, last_trade_time, trade_history>>

\* _execute_on_alpaca returns or raises, and process_signal records the outcome
ExecutorReturns ==
    \E p \in Procs, outcome \in ExecutorOutcomes :
        /\ procs[p].pc = "placing"
        /\ outcome = "raised" => procs[p].initializing
        /\ IF outcome = "success"
           THEN RecordSuccess(p)
           ELSE RecordFailure(p, outcome)
        /\ procs' = [procs EXCEPT ![p] = IdleProc]
        /\ UNCHANGED <<config, ai_analyzer, broker, last_reset_date, now, ledgerVars, pureVars>>

\* time passes
Tick ==
    /\ now < MaxNow
    /\ now' = now + config.cooldown_minutes
    /\ UNCHANGED <<config, ai_analyzer, broker, daily_trades, last_reset_date, last_trade_time,
                   consecutive_errors, trade_history, procs, returned, ledgerVars, pureVars>>

AlpacaNext ==
    \/ ProcessSignal
    \/ AnalyzerReturns
    \/ RiskManagement
    \/ ExecutorReturns
    \/ Tick

\* the orchestrator after construction; the paper ledger is not used
AlpacaStart ==
    /\ LedgerInit
    /\ risk_call = NoRiskCall
    /\ parsed = NoParse
    /\ AlpacaInit

AlpacaSpec == AlpacaStart /\ [][AlpacaNext]_vars

\* the orchestrator after construction with an analyzer and the default
\* configuration
AlpacaFairStart ==
    /\ AlpacaStart
    /\ config.enabled
    /\ ai_analyzer
    /\ ~broker

\* a caller hands a signal that passes every check but the breaker's
ProcessGoodSignal ==
    \E signal \in {ASig("s1", "BTC/USDT", "telegram", 80)} : process_signal(signal)

AlpacaFairNext ==
    \/ ProcessGoodSignal
    \/ AnalyzerReturns
    \/ RiskManagement
    \/ ExecutorReturns
    \/ Tick

\* every call in flight goes on, and what can happen again and again does:
\* a call that passes pre-flight, an analysis and a risk check that let the
\* signal on, an order that succeeds
AlpacaFairness ==
    /\ WF_vars(AlpacaFairNext)
    /\ SF_vars(ProcessGoodSignal /\ procs' # procs)
    /\ SF_vars(AnalyzerReturns /\ returned' = returned)
    /\ SF_vars(RiskManagement /\ returned' = returned)
    /\ SF_vars(ExecutorReturns /\ returned'.executed)

AlpacaFairSpec == AlpacaFairStart /\ [][AlpacaFairNext]_vars /\ AlpacaFairness

-----------------------------------------------------------------------------
(* The paper AutoExecuteEngine.process_signal over the TradingEngine ledger. *)
(* Its only await that yields to other callers with work left is the one on  *)
(* the analyzer; _notify catches what the callback raises.                   *)

\* AutoExecuteEngine.__init__ of the paper orchestrator on a new TradingEngine
PaperInit ==
    /\ LedgerInit
    /\ risk_call = NoRiskCall
    /\ parsed = NoParse
    /\ config \in { PaperAutoExecuteConfig(e, MaxDailyTrades) : e \in BOOLEAN }
    /\ ai_analyzer \in BOOLEAN
    /\ broker = FALSE
    /\ daily_trades = 0
    /\ now = 0
    /\ last_reset_date = Date(now)
    /\ last_trade_time = <<>>
    /\ consecutive_errors = 0
    /\ trade_history = <<>>
    /\ procs = [p \in Procs |-> IdleProc]
    /\ returned = NoResult

\* the rest of process_signal after the quality gate: the Signal conversion
\* and TradingEngine.execute_signal inside the try block.  A conversion that
\* raises and an execute_signal that raises are both caught and reported as
\* an execution error; daily_trades is increased only when a trade is returned.
PaperExecute(p, signal, ai_analysis, daily) ==
    \E slip \in SlippageFactors :
    \E signal_obj \in { Signal(signal.source, Some(signal.asset), signal.action,
                               Some(signal.entry), Some(signal.stop_loss),
                               signal.take_profits, signal.leverage, signal.confidence) } :
        /\ procs' = [procs EXCEPT ![p] = IdleProc]
        /\ IF signal_obj = None
           THEN /\ Return(signal, FALSE, "execution_error")
                /\ daily_trades' = daily
                /\ UNCHANGED <<portfolio, positions, trades, open_trades, last_call>>
           ELSE \E r \in { execute_signal(Ledger, settings, signal_obj[1],
                                          paper_position_size(config, ai_analysis), slip) } :
                    /\ SetLedger(r.L)
                    /\ last_call' = Call("execute_signal", r.trade_id, r.ret, "none")
                    /\ daily_trades' = IF r.ret = "Trade" THEN daily + 1 ELSE daily
                    /\ Return(signal, r.ret = "Trade",
                              IF r.ret = "Trade" THEN "executed"
                              ELSE IF r.ret = "None" THEN "risk_rejected"
                              ELSE "execution_error")

\* the paper process_signal from the call to the first await
PaperProcessSignal ==
    \E p \in Procs, signal \in PaperSignals :
        /\ procs[p].pc = "idle"
        /\ LET reset == paper_daily_reset(daily_trades, last_reset_date, now)
               pre   == paper_pre_checks(config, signal, reset.daily_trades)
           IN  /\ last_reset_date' = reset.last_reset_date
               /\ IF pre # "passed"
                  THEN /\ Return(signal, FALSE, pre)
                       /\ daily_trades' = reset.daily_trades
                       /\ UNCHANGED <<procs, portfolio, positions, trades, open_trades, last_call>>
                  ELSE IF config.require_ai_approval /\ ai_analyzer
                  THEN /\ procs' = [procs EXCEPT ![p] =
                              [IdleProc EXCEPT !.pc = "analyze", !.signal = Some(signal)]]
                       /\ daily_trades' = reset.daily_trades
                       /\ UNCHANGED <<returned, portfolio, positions, trades, open_trades,
                                      last_call>>
                  ELSE PaperExecute(p, signal, None, reset.daily_trades)
        /\ UNCHANGED <<config, ai_analyzer, broker, last_trade_time, consecutive_errors,
                       trade_history, now, settings, ticks, pureVars>>

\* ai_analyzer.analyze_signal returns and process_signal runs to its end
PaperAnalyzerGives(p, outcome) ==
    /\ procs[p].pc = "analyze"
    /\ LET signal == procs[p].signal[1]
       IN  IF ~outcome[1].should_execute
           THEN /\ Return(signal, FALSE, "ai_rejected")
                /\ procs' = [procs EXCEPT ![p] = IdleProc]
                /\ UNCHANGED <<daily_trades, portfolio, positions, trades, open_trades,
                               last_call>>
           ELSE IF outcome[1].score < config.min_ai_score
           THEN /\ Return(signal, FALSE, "ai_score_low")
                /\ procs' = [procs EXCEPT ![p] = IdleProc]
                /\ UNCHANGED <<daily_trades, portfolio, positions, trades, open_trades,
                               last_call>>
           ELSE PaperExecute(p, signal, outcome, daily_trades)
    /\ UNCHANGED <<config, ai_analyzer, broker, last_reset_date, last_trade_time,
                   consecutive_errors, trade_history, now, settings, ticks, pureVars>>

PaperAnalyzerReturns ==
    \E p \in Procs, outcome \in PaperAnalyzerOutcomes : PaperAnalyzerGives(p, outcome)

\* midnight UTC passes
NextDay ==
    /\ Date(now) < MaxDay
    /\ now' = (Date(now) + 1) * MinutesPerDay
    /\ UNCHANGED <<config, ai_analyzer, broker, daily_trades, last_reset_date, last_trade_time,
                   consecutive_errors, trade_history, procs, returned, ledgerVars, pureVars>>

PaperNext ==
    \/ PaperProcessSignal
    \/ PaperAnalyzerReturns
    \/ NextDay

PaperSpec == PaperInit /\ [][PaperNext]_vars

-----------------------------------------------------------------------------
(* The Alpaca orchestrator across midnight UTC, with callers that submit a   *)
(* signal that passes pre-flight and one whose confidence is too low.        *)

\* the orchestrator after construction, enabled and with an analyzer
AlpacaDayStart ==
    /\ AlpacaStart
    /\ config.enabled
    /\ ai_analyzer

ProcessDaySignal ==
    \E signal \in {ASig("s1", "BTC/USDT", "telegram", 80),
                    ASig("s3", "BTC/USDT", "Telegram", 50)} : process_signal(signal)

AlpacaDayNext ==
    \/ ProcessDaySignal
    \/ AnalyzerReturns
    \/ RiskManagement
    \/ ExecutorReturns
    \/ Tick
    \/ NextDay

AlpacaDaySpec == AlpacaDayStart /\ [][AlpacaDayNext]_vars

-----------------------------------------------------------------------------
(* The sizing step of the Alpaca orchestrator over a range of analyzer       *)
(* scores, account equities and configured minimum scores.                   *)

\* values configured for AutoExecuteConfig.min_ai_score
MinAiScores == {Num(50), Num(60)}

\* what ai_analyzer.analyze_signal gives: a score below the lowest threshold
\* of score_multipliers, one in the lowest tier and one in a higher tier
SizingOutcomes ==
    { Some([score |-> Num(k), should_execute |-> TRUE]) : k \in {55, 65, 85} }

\* what broker.get_balance() gives as total equity
SizingBalances == {Some(Num(30)), Some(Num(10000))}

\* the orchestrator after construction with an analyzer, with or without a
\* broker, and a configured minimum score
AlpacaSizingStart ==
    /\ LedgerInit
    /\ risk_call = NoRiskCall
    /\ parsed = NoParse
    /\ config \in { [AutoExecuteConfig(MaxDailyTrades) EXCEPT !.min_ai_score = m] :
                        m \in MinAiScores }
    /\ ai_analyzer = TRUE
    /\ broker \in BOOLEAN
    /\ daily_trades = 0
    /\ now = 0
    /\ last_reset_date = Date(now)
    /\ last_trade_time = <<>>
    /\ consecutive_errors = 0
    /\ trade_history = <<>>
    /\ procs = [p \in Procs |-> IdleProc]
    /\ returned = NoResult

ProcessSizingSignal ==
    \E signal \in {ASig("s1", "BTC/USDT", "telegram", 80)} : process_signal(signal)

SizingAnalyzerReturns ==
    \E p \in Procs, outcome \in SizingOutcomes : AnalyzerGives(p, outcome)

SizingRiskManagement ==
    \E p \in Procs, balance_result \in SizingBalances :
        BrokerAnswers(p, balance_result, Some(0))

AlpacaSizingNext ==
    \/ ProcessSizingSignal
    \/ SizingAnalyzerReturns
    \/ SizingRiskManagement
    \/ ExecutorReturns

AlpacaSizingSpec == AlpacaSizingStart /\ [][AlpacaSizingNext]_vars

-----------------------------------------------------------------------------
(* SignalParser.parse followed by ParsedSignal.to_signal: the extracted      *)
(* fields are drawn at the start, the actions apply the functions to them.   *)

\* what the extractors of SignalParser.parse can give
ParsedInputs ==
    { ParsedSignal(asset, action, entry, stop_loss, take_profits, leverage) :
        asset \in {None, Some("BTC/USDT")},
        action \in {None, Some("long"), Some("short")},
        entry \in {None, Some(0), Some(Num(100))},
        stop_loss \in {None, Some(Num(95)), Some(Num(100)), Some(Num(105))},
        take_profits \in {<<>>, <<Num(110)>>, <<Num(110), Num(120)>>, <<Num(90)>>},
        leverage \in {None, Some(0), Some(10), Some(200)} }

ParserInit ==
    /\ LedgerInit
    /\ AlpacaIdle
    /\ risk_call = NoRiskCall
    /\ \E p \in ParsedInputs :
          parsed = [pc |-> "extracted", intent |-> p, signal |-> None]

\* SignalParser.parse from the extraction on: result.confidence is set
Parse ==
    /\ parsed.pc = "extracted"
    /\ parsed' = [parsed EXCEPT !.pc = "parsed",
                                !.intent.confidence = calculate_confidence(parsed.intent)]
    /\ UNCHANGED <<ledgerVars, alpacaVars, risk_call>>

\* parsed.to_signal(source)
ToSignal ==
    \E source \in {"telegram", "webhook"} :
        /\ parsed.pc = "parsed"
        /\ parsed' = [parsed EXCEPT !.pc = "converted",
                                    !.signal = to_signal(parsed.intent, source)]
        /\ UNCHANGED <<ledgerVars, alpacaVars, risk_call>>

ParserNext ==
    \/ Parse
    \/ ToSignal

ParserSpec == ParserInit /\ [][ParserNext]_vars

-----------------------------------------------------------------------------
(* Claims about the paper ledger, checked under LedgerSpec *)

OpenTradesOn(symbol) ==
    {i \in 1..Len(trades) : trades[i].symbol = symbol /\ trades[i].status = "open"}

\* C1: after any interleaving of the ledger calls, at most one open position
\* exists per symbol: no symbol has two open trades, and the position stored
\* under a symbol is the position of that symbol.
C1_OnePositionPerSymbol ==
    \A symbol \in Symbols :
        /\ Cardinality(OpenTradesOn(symbol)) <= 1
        /\ symbol \in DOMAIN positions => positions[symbol].symbol = symbol

\* a second signal for a symbol with an open position was rejected as a duplicate
C1_Witness ==
    /\ last_call.op = "execute_signal"
    /\ last_call.ret = "None"
    /\ last_call.reason = "duplicate"
    /\ \E symbol \in Symbols : Cardinality(OpenTradesOn(symbol)) = 1

\* C2: in every reachable ledger state
\* available_balance = current_balance - margin_used.
C2_AvailableBalance ==
    portfolio.available_balance = portfolio.current_balance - portfolio.margin_used

\* one trade was closed with a profit or loss and another is open with margin reserved
C2_Witness ==
    /\ portfolio.total_trades >= 1
    /\ portfolio.current_balance # portfolio.initial_balance
    /\ portfolio.margin_used > 0
    /\ positions # <<>>

ClosedOrUnknown(trade_id) ==
    trade_id \notin 1..Len(trades) \/ trades[trade_id].status = "closed"

\* C3: close_trade on an already-closed trade or an unknown trade id returns
\* False without raising and leaves trades, positions, the open-trade list and
\* every Portfolio field unchanged.
C3_CloseClosedOrUnknownIsNoop ==
    [][ (last_call'.op = "close_trade" /\ ClosedOrUnknown(last_call'.trade_id))
            => /\ last_call'.ret = "False"
               /\ UNCHANGED <<trades, positions, open_trades, portfolio, settings>> ]_vars

\* close_trade was called on a trade that was closed before, while another
\* position is open
C3_Witness ==
    /\ last_call.op = "close_trade"
    /\ last_call.ret = "False"
    /\ last_call.trade_id \in 1..Len(trades)
    /\ trades[last_call.trade_id].status = "closed"
    /\ trades[last_call.trade_id].exit_price # None
    /\ positions # <<>>

ExitFieldsSet(trade) ==
    /\ trade.exit_price # None
    /\ trade.exit_reason # None
    /\ trade.realized_pnl # None

ExitFieldsUnset(trade) ==
    /\ trade.exit_price = None
    /\ trade.exit_reason = None
    /\ trade.realized_pnl = None

\* C4: a trade's status only moves forward: execute_signal creates it open, a
\* close makes it closed with exit price, exit reason and realized P&L set, and
\* a closed trade never changes again under any later operation.
C4_StatusMovesForward ==
    [][ /\ Len(trades') >= Len(trades)
        /\ \A i \in 1..Len(trades) :
              /\ trades[i].status = "closed" => trades'[i] = trades[i]
              /\ (trades[i].status = "open" /\ trades'[i].status # "open")
                    => (trades'[i].status = "closed" /\ ExitFieldsSet(trades'[i]))
              /\ trades'[i].status = "open" => ExitFieldsUnset(trades'[i])
        /\ \A i \in (Len(trades) + 1)..Len(trades') :
              trades'[i].status = "open" /\ ExitFieldsUnset(trades'[i]) ]_vars

\* a closed trade, and a later trade open on the same symbol
C4_Witness ==
    \E i, j \in 1..Len(trades) :
        /\ i < j
        /\ trades[i].symbol = trades[j].symbol
        /\ trades[i].status = "closed" /\ ExitFieldsSet(trades[i])
        /\ trades[j].status = "open"

-----------------------------------------------------------------------------
(* Claims about RiskManager.validate_trade, checked under RiskSpec *)

RiskResult == risk_call.result[1]

PositionLimitReached ==
    Cardinality(DOMAIN risk_call.current_positions) >= risk_call.rs.max_open_positions

DuplicateSymbol == risk_call.signal.asset \in DOMAIN risk_call.current_positions

\* C8 as stated: a signal validated while a position is open on its symbol is
\* rejected with the duplicate-symbol reason, whatever the position count.
C8_Original ==
    (risk_call.called /\ DuplicateSymbol)
        => (~RiskResult.approved /\ RiskResult.reason = "duplicate")

\* C8 as amended: such a signal is always rejected; the reason is
\* duplicate-symbol when the position count is below max_open_positions and
\* position-limit when the count has reached it.
C8_DuplicateRejected ==
    (risk_call.called /\ DuplicateSymbol)
        => /\ ~RiskResult.approved
           /\ RiskResult.reason = IF PositionLimitReached THEN "max_positions" ELSE "duplicate"

\* a sizeable, affordable signal was rejected as a duplicate
C8_Witness ==
    /\ risk_call.called
    /\ DuplicateSymbol
    /\ RiskResult.reason = "duplicate"
    /\ risk_call.balance > 0
    /\ risk_call.signal.stop_loss = Num(95)

NonPositiveBalance == risk_call.balance <= 0

Sizing ==
    calculate_position_size(risk_call.signal.entry, risk_call.signal.stop_loss,
                            risk_call.balance, risk_call.rs.max_risk_per_trade_percent,
                            risk_call.signal.leverage)

PortfolioRiskExceeded ==
    total_risk_percent_exceeds(Sizing.risk_amount + PositionsRisk(risk_call.current_positions),
                               risk_call.balance, risk_call.rs.max_portfolio_risk_percent)

\* C9: validate_trade returns the reason of the first condition that fails in
\* the order position-limit, duplicate-symbol, non-positive balance, invalid
\* sizing, portfolio-risk-exceeded, and approves iff none fails.
C9_FirstFailureDecides ==
    risk_call.called =>
        /\ PositionLimitReached => RiskResult.reason = "max_positions"
        /\ (~PositionLimitReached /\ DuplicateSymbol) => RiskResult.reason = "duplicate"
        /\ (~PositionLimitReached /\ ~DuplicateSymbol /\ NonPositiveBalance)
              => RiskResult.reason = "insufficient_balance"
        /\ (~PositionLimitReached /\ ~DuplicateSymbol /\ ~NonPositiveBalance /\ ~Sizing.valid)
              => RiskResult.reason \in {"invalid_stop", "too_large"}
        /\ (~PositionLimitReached /\ ~DuplicateSymbol /\ ~NonPositiveBalance /\ Sizing.valid
                /\ PortfolioRiskExceeded)
              => RiskResult.reason = "portfolio_risk"
        /\ RiskResult.approved <=>
              (~PositionLimitReached /\ ~DuplicateSymbol /\ ~NonPositiveBalance
                  /\ Sizing.valid /\ ~PortfolioRiskExceeded)
        /\ RiskResult.approved <=> RiskResult.reason = "none"

\* the position limit, a duplicate and a non-positive balance fail together
\* and the position limit is reported
C9_Witness ==
    /\ risk_call.called
    /\ PositionLimitReached /\ DuplicateSymbol /\ NonPositiveBalance
    /\ risk_call.signal.stop_loss = risk_call.signal.entry
    /\ RiskResult.reason = "max_positions"

RiskPerUnit == Abs(risk_call.signal.entry - risk_call.signal.stop_loss)

\* balance * max_risk_per_trade_percent / 100 - risk_amount, in 1 / (100 * SCALE^2)
RiskAmountError ==
    RiskResult.risk_amount * 100 * SCALE
        - risk_call.balance * risk_call.rs.max_risk_per_trade_percent

\* C10 as stated: for every approved check risk_amount is exactly
\* balance * max_risk_per_trade_percent / 100 and position_size * |entry - stop|
\* is exactly risk_amount.
C10_Original ==
    (risk_call.called /\ RiskResult.approved)
        => /\ RiskAmountError = 0
           /\ RiskResult.position_size * RiskPerUnit = RiskResult.risk_amount * SCALE

\* C10 as amended: for every approved check risk_amount is the rounded product
\* position_size * |entry - stop| and differs from
\* balance * max_risk_per_trade_percent / 100 by no more than the rounding of
\* the size (half a unit in its last place, times |entry - stop|) and of the
\* amounts (one unit in the last place); balance 10000, 2 %, entry 100, stop 95
\* gives risk_amount 200 and size 40; a stop equal to the entry is never
\* approved and calculate_position_size reports it as an invalid stop.
C10_RiskAmountWithinRounding ==
    risk_call.called =>
        /\ RiskResult.approved =>
              /\ RiskResult.risk_amount = FMul(RiskResult.position_size, RiskPerUnit)
              /\ 2 * Abs(RiskAmountError) <= (RiskPerUnit + 2 * SCALE) * 100
        /\ (RiskResult.approved /\ risk_call.balance = Num(10000)
                /\ risk_call.rs.max_risk_per_trade_percent = Num(2)
                /\ risk_call.signal.stop_loss = Num(95))
              => (RiskResult.risk_amount = Num(200) /\ RiskResult.position_size = Num(40))
        /\ RiskPerUnit = 0 =>
              /\ ~RiskResult.approved
              /\ ~Sizing.valid /\ Sizing.reason = "invalid_stop"
              /\ (~PositionLimitReached /\ ~DuplicateSymbol /\ ~NonPositiveBalance)
                    => RiskResult.reason = "invalid_stop"

\* the example of the claim was approved
C10_Witness ==
    /\ risk_call.called
    /\ RiskResult.approved
    /\ risk_call.balance = Num(10000)
    /\ risk_call.rs.max_risk_per_trade_percent = Num(2)
    /\ risk_call.signal.entry = Num(100) /\ risk_call.signal.stop_loss = Num(95)
    /\ RiskResult.risk_amount = Num(200) /\ RiskResult.position_size = Num(40)

-----------------------------------------------------------------------------
(* Claims about the Alpaca orchestrator, checked under AlpacaSpec *)

\* C5: the daily trade counter never exceeds max_daily_trades, also when
\* process_signal calls run concurrently.
C5_DailyCounterBounded ==
    daily_trades <= config.max_daily_trades

\* C6: at most one orchestration per symbol is in flight: two process_signal
\* calls for the same asset are never both at the executor.
C6_OneOrderInFlightPerSymbol ==
    \A p, q \in Procs :
        (p # q /\ procs[p].pc = "placing" /\ procs[q].pc = "placing")
            => procs[p].signal[1].asset # procs[q].signal[1].asset

\* a process_signal call that returned without an await
PreflightReturn == returned' # returned /\ procs' = procs

\* the pre-flight checks other than the circuit breaker let the signal pass
OtherChecksPass(signal) ==
    /\ config.enabled
    /\ daily_trades' < config.max_daily_trades
    /\ \/ Lower(signal.source) = ""
       \/ \E s \in config.allowed_sources : IsSubstring(s, Lower(signal.source))
    /\ signal.confidence >= config.min_confidence
    /\ \/ signal.asset \notin DOMAIN last_trade_time
       \/ now - last_trade_time[signal.asset] >= config.cooldown_minutes

\* C7 as stated: the circuit breaker trips after 10 consecutive failures, so
\* no signal is rejected by it before, and the next one is rejected.
C7_Original ==
    [][ /\ (PreflightReturn /\ returned'.reason = "circuit_breaker")
              => consecutive_errors >= 10
        /\ (PreflightReturn /\ OtherChecksPass(returned'.signal[1]) /\ consecutive_errors >= 10)
              => returned'.reason = "circuit_breaker" ]_vars

\* C7: the circuit breaker trips after 5 consecutive failures.  While fewer
\* than 5 have accumulated no signal is rejected by the breaker; once 5 have,
\* a signal that passes the other pre-flight checks is rejected with the
\* circuit-breaker reason, and no call gets past the pre-flight checks, so
\* the executor is not called for it.
C7_BreakerTripsAtFive ==
    [][ /\ (PreflightReturn /\ returned'.reason = "circuit_breaker")
              => (consecutive_errors >= 5 /\ ~returned'.executed)
        /\ (PreflightReturn /\ OtherChecksPass(returned'.signal[1]) /\ consecutive_errors >= 5)
              => returned'.reason = "circuit_breaker"
        /\ consecutive_errors >= 5
              => \A p \in Procs : procs[p].pc = "idle" => procs'[p].pc = "idle" ]_vars

\* five orders failed in a row and the next signal was rejected by the breaker
C7_Witness ==
    /\ consecutive_errors = 5
    /\ returned.reason = "circuit_breaker"
    /\ ~returned.executed
    /\ \A p \in Procs : procs[p].pc = "idle"

\* C11: a risk/reward ratio below the configured minimum only adds a warning
\* and never by itself rejects a signal: no process_signal call of the
\* orchestrator returns a rejection whose reason is the risk/reward ratio.
C11_LowRewardNeverRejects ==
    returned.reason # "low_rr"

\* the Signal the paper process_signal makes of the signal dict
PaperSignalObject(signal) ==
    Signal(signal.source, Some(signal.asset), signal.action, Some(signal.entry),
           Some(signal.stop_loss), signal.take_profits, signal.leverage, signal.confidence)

\* the reasons of the paper process_signal's rejections before the executor
PaperEarlyReasons ==
    {"disabled", "daily_limit", "source_not_allowed", "low_confidence",
     "ai_rejected", "ai_score_low"}

\* C26: when the risk check does not approve a signal, the reason in the
\* result process_signal returns is the risk check's own rejection reason
\* (position limit, duplicate symbol, insufficient balance, invalid sizing or
\* portfolio risk exceeded).
C26_RiskReasonReturned ==
    [][ (returned' # returned /\ returned'.reason \notin PaperEarlyReasons)
          => LET signal_obj == PaperSignalObject(returned'.signal[1])
             IN  signal_obj # None
                   => LET risk_check == validate_trade(settings, signal_obj[1],
                                                       portfolio.available_balance, positions)
                      IN  ~risk_check.approved => returned'.reason = risk_check.reason ]_vars

\* TradingEngine.get_open_trades, as the list of trade ids
get_open_trades ==
    SelectSeq(open_trades, LAMBDA tid : tid \in DOMAIN trades)

\* C18: get_open_trades returns exactly the trades whose status is open, each
\* once; each of them has one Position under its symbol, which it shares with
\* no other open trade; every Position belongs to an open trade; and
\* portfolio.open_positions is the number of positions.
C18_OpenTradesAndPositions ==
    LET listed == {get_open_trades[i] : i \in DOMAIN get_open_trades}
    IN  /\ listed = {tid \in DOMAIN trades : trades[tid].status = "open"}
        /\ Len(get_open_trades) = Cardinality(listed)
        /\ \A tid \in listed : trades[tid].symbol \in DOMAIN positions
        /\ \A t1, t2 \in listed : trades[t1].symbol = trades[t2].symbol => t1 = t2
        /\ \A symbol \in DOMAIN positions : \E tid \in listed : trades[tid].symbol = symbol
        /\ portfolio.open_positions = Cardinality(DOMAIN positions)

\* one trade was closed and another is open with its position
C18_Witness ==
    /\ \E tid \in DOMAIN trades : trades[tid].status = "closed"
    /\ Len(open_trades) = 1
    /\ Cardinality(DOMAIN positions) = 1
    /\ ticks > 0

\* the risk to the stop of the open positions handed to the risk check: the
\* sum of |entry - stop| * quantity over those that have a stop
OpenRiskToStop ==
    SumSet(DOMAIN risk_call.current_positions,
           [s \in DOMAIN risk_call.current_positions |->
               LET pos == risk_call.current_positions[s]
               IN  IF pos.stop_loss # 0
                   THEN (Abs(pos.entry_price - pos.stop_loss) * pos.quantity) \div SCALE
                   ELSE 0])

\* C27: for every approved risk check, this trade's risk amount plus the
\* risk to the stop of all open positions is at most
\* max_portfolio_risk_percent percent of the balance passed to the check.
C27_PortfolioRiskBounded ==
    (risk_call.called /\ RiskResult.approved)
        => (RiskResult.risk_amount + OpenRiskToStop) * 100 * SCALE
              <= risk_call.rs.max_portfolio_risk_percent * risk_call.balance

\* a trade was approved next to an open position, and the total risk is
\* exactly the limit
C27_Witness ==
    /\ risk_call.called
    /\ RiskResult.approved
    /\ risk_call.current_positions # <<>>
    /\ (RiskResult.risk_amount + OpenRiskToStop) * 100 * SCALE
          = risk_call.rs.max_portfolio_risk_percent * risk_call.balance

\* this step is an execute_signal call that opened a trade
Opened == Len(trades') = Len(trades) + 1

\* the trade the step opened
OpenedTrade == trades'[Len(trades')]

\* C28: every trade opened by execute_signal, with or without a custom
\* quantity, has quantity * entry <= available balance at validation *
\* leverage, so that the margin reserved for it is at most the available
\* balance and available_balance is >= 0 right after the open.
C28_OpenWithinAvailable ==
    [][ Opened
          => /\ FMul(OpenedTrade.quantity, OpenedTrade.entry_price)
                   <= portfolio.available_balance * OpenedTrade.leverage
             /\ portfolio'.margin_used - portfolio.margin_used <= portfolio.available_balance
             /\ portfolio'.available_balance >= 0 ]_vars

\* C29: with unchanged risk settings, no execute_signal or close_trade call
\* takes the number of open positions above max_open_positions: the count is
\* within the limit at the start, and a step that leaves the settings alone
\* keeps it within the limit.
C29_PositionLimitKept ==
    /\ Cardinality(DOMAIN positions) <= settings.max_open_positions
    /\ [][ (settings' = settings
              /\ Cardinality(DOMAIN positions) <= settings.max_open_positions)
            => /\ Cardinality(DOMAIN positions') <= settings.max_open_positions
               /\ portfolio'.open_positions <= settings.max_open_positions ]_vars

\* the ledger is at its limit of one position and execute_signal has just
\* refused another symbol for that reason
C29_Witness ==
    /\ settings.max_open_positions = 1
    /\ Cardinality(DOMAIN positions) = 1
    /\ last_call.op = "execute_signal"
    /\ last_call.reason = "max_positions"

\* quantity * entry_price / leverage of a trade
TradeMargin(trade) == RoundDiv(FMul(trade.quantity, trade.entry_price), trade.leverage)

\* the ids of the trades whose status is open
OpenIds == {id \in 1..Len(trades) : trades[id].status = "open"}

\* the ids of the trades this step closed
ClosedNow == {id \in OpenIds : trades'[id].status = "closed"}

\* C30: margin_used equals the sum over the open trades of
\* quantity * entry_price / leverage; each open adds exactly that amount, each
\* close releases exactly the amount reserved at the trade's open, and
\* margin_used is 0 whenever no trade is open.
C30_MarginIsSumOfOpenTrades ==
    /\ [](/\ portfolio.margin_used
                = SumSet(OpenIds, [id \in OpenIds |-> TradeMargin(trades[id])])
           /\ (OpenIds = {} => portfolio.margin_used = 0))
    /\ [][ /\ Opened
                 => portfolio'.margin_used
                      = portfolio.margin_used + TradeMargin(OpenedTrade)
           /\ ClosedNow # {}
                 => portfolio'.margin_used
                      = portfolio.margin_used
                          - SumSet(ClosedNow, [id \in ClosedNow |-> TradeMargin(trades[id])]) ]_vars

\* one trade was closed and its margin released while another stays open
\* with its margin reserved
C30_Witness ==
    /\ Len(trades) = 2
    /\ Cardinality(OpenIds) = 1
    /\ portfolio.margin_used > 0
    /\ last_call.op = "close_trade"
    /\ last_call.ret # "False"

\* the ids of the closed trades
ClosedIds == {id \in 1..Len(trades) : trades[id].status = "closed"}

\* the realized P&L of a closed trade, 0 where none was booked
RealizedPnl(id) == IF trades[id].realized_pnl = None THEN 0 ELSE trades[id].realized_pnl[1]

\* C31: the Portfolio aggregates agree with the trade records: total_trades
\* is the number of closed trades, winning_trades + losing_trades =
\* total_trades, current_balance = initial_balance + total_pnl =
\* initial_balance + the sum of the realized P&L of the closed trades, and
\* win_rate = winning_trades / total_trades * 100.
C31_AggregatesAgreeWithTrades ==
    /\ portfolio.total_trades = Cardinality(ClosedIds)
    /\ portfolio.winning_trades + portfolio.losing_trades = portfolio.total_trades
    /\ portfolio.winning_trades = Cardinality({id \in ClosedIds : RealizedPnl(id) > 0})
    /\ portfolio.current_balance = portfolio.initial_balance + portfolio.total_pnl
    /\ portfolio.total_pnl = SumSet(ClosedIds, [id \in ClosedIds |-> RealizedPnl(id)])
    /\ portfolio.total_trades > 0
          => portfolio.win_rate
               = FMul(FDiv(Num(Cardinality({id \in ClosedIds : RealizedPnl(id) > 0})),
                           Num(Cardinality(ClosedIds))), Num(100))

\* one trade was closed with a profit and another with a loss
C31_Witness ==
    /\ Cardinality(ClosedIds) = 2
    /\ portfolio.winning_trades = 1
    /\ portfolio.losing_trades = 1
    /\ portfolio.current_balance # portfolio.initial_balance

\* the price is beyond the trade's stop-loss
BeyondStop(trade, price) ==
    /\ trade.stop_loss # 0
    /\ IF trade.side = "long" THEN price <= trade.stop_loss ELSE price >= trade.stop_loss

\* some open trade has a position whose current price is beyond its stop
OpenBeyondStop ==
    \E id \in OpenIds :
        /\ trades[id].symbol \in DOMAIN positions
        /\ BeyondStop(trades[id], positions[trades[id].symbol].current_price)

\* C32: after every price update, by update_prices as well as by
\* simulate_price_update, no trade remains open with its price beyond its
\* stop-loss: the update closes such a trade with reason stop_loss at the
\* stop price.
C32_NoOpenTradeBeyondStop ==
    last_call.op \in {"update_prices", "simulate_price_update"} => ~OpenBeyondStop

\* the take-profits of the trade on the profitable side of its entry price
TargetsBeyond(trade) ==
    {trade.take_profits[i] : i \in DOMAIN trade.take_profits}
        \cap (IF trade.side = "long"
              THEN {tp \in {trade.take_profits[i] : i \in DOMAIN trade.take_profits} :
                      tp > trade.entry_price}
              ELSE {tp \in {trade.take_profits[i] : i \in DOMAIN trade.take_profits} :
                      tp < trade.entry_price})

\* the take-profit nearest to the entry price: the lowest target above it for
\* a long, the highest target below it for a short
NearestTarget(trade) ==
    IF trade.side = "long"
    THEN CHOOSE tp \in TargetsBeyond(trade) : \A o \in TargetsBeyond(trade) : tp <= o
    ELSE CHOOSE tp \in TargetsBeyond(trade) : \A o \in TargetsBeyond(trade) : tp >= o

\* the price has crossed the trade's nearest take-profit
CrossedNearestTarget(trade, price) ==
    /\ TargetsBeyond(trade) # {}
    /\ IF trade.side = "long" THEN price >= NearestTarget(trade)
                              ELSE price <= NearestTarget(trade)

\* C33: when a price update does not hit the stop and the price has crossed
\* the take-profit nearest to the entry price, the trade is closed with
\* reason take_profit at that nearest target's price.
C33_ClosedAtNearestTarget ==
    [][ last_call'.op = "simulate_price_update"
          => \A id \in OpenIds :
                LET trade  == trades[id]
                    symbol == trade.symbol
                IN  /\ ( /\ trades'[id].status = "open"
                         /\ symbol \in DOMAIN positions'
                         /\ positions'[symbol].current_price # positions[symbol].current_price
                         /\ ~BeyondStop(trade, positions'[symbol].current_price) )
                       => ~CrossedNearestTarget(trade, positions'[symbol].current_price)
                    /\ ( /\ trades'[id].status = "closed"
                         /\ trades'[id].exit_reason = Some("tp") )
                       => trades'[id].exit_price = Some(NearestTarget(trade)) ]_vars

\* the most the entry slippage of at most 0.05% can add to the loss of the
\* trade, rounded up
SlippageAllowance(trade) ==
    (trade.quantity * trade.leverage * ((trade.entry_price * 5) \div 10000 + 1)) \div SCALE + 1

\* the closed trades that were opened at the size the risk manager computed
\* and closed at their stop-loss price
StoppedAtComputedSize ==
    {id \in ClosedIds : /\ Some(trades[id].quantity) \notin CustomQuantities
                        /\ trades[id].exit_reason = Some("sl")
                        /\ trades[id].exit_price = Some(trades[id].stop_loss)}

\* C36: when a trade opened at the risk-computed size is closed at its
\* stop-loss price, the loss booked to the portfolio does not exceed the
\* risk_amount the risk check recorded for it, entry slippage set aside, for
\* every allowed leverage.
C36_LossAtStopWithinRisk ==
    \A id \in StoppedAtComputedSize :
        -RealizedPnl(id) <= trades[id].risk_amount + SlippageAllowance(trades[id])

\* C37: a manual close_trade without an explicit exit price closes the trade
\* at the position's current price: the realized P&L booked equals the
\* position's unrealized P&L as of its last price update.
C37_ManualCloseAtCurrentPrice ==
    [][ \A id \in ClosedNow :
          trades'[id].exit_reason = Some("manual")
            => /\ trades'[id].exit_price = Some(positions[trades[id].symbol].current_price)
               /\ trades'[id].realized_pnl
                    = Some(positions[trades[id].symbol].unrealized_pnl) ]_vars

-----------------------------------------------------------------------------
(* Claims about the paper orchestrator, checked under PaperSpec *)

\* the position size the risk manager computes for the signal on the ledger
\* as it is
ComputedSize(signal) ==
    validate_trade(settings, PaperSignalObject(signal)[1],
                   portfolio.available_balance, positions).position_size

\* C35: in the paper orchestrator the quantity of the opened trade is the
\* risk manager's computed position size times size_reduction_factor when the
\* analyzer's score is below reduce_size_below_score, and the computed
\* position size otherwise.
C35_ReducedSizeIsScaled ==
    [][ \A p \in Procs, outcome \in PaperAnalyzerOutcomes :
          (PaperAnalyzerGives(p, outcome) /\ Opened)
            => OpenedTrade.quantity
                 = IF outcome[1].score < config.reduce_size_below_score
                   THEN FMul(ComputedSize(procs[p].signal[1]), config.size_reduction_factor)
                   ELSE ComputedSize(procs[p].signal[1]) ]_vars


\* C12: every process_signal call returns a result whose reason is set and
\* whose executed flag is true exactly when the executor executed the signal:
\* the flag is true iff the call opened a trade in the ledger.
C12_ExecutedIffTradeOpened ==
    [][ returned' # returned
          => /\ returned'.reason # "none"
             /\ returned'.executed <=> (Len(trades') > Len(trades)) ]_vars

\* C13: a disabled orchestrator rejects immediately: the call returns
\* executed = false without reaching the analyzer or the executor and leaves
\* the daily counter, the last reset date, the last-trade times, the
\* consecutive-error counter and the trade history unchanged.
C13_DisabledChangesNothing ==
    [][ (returned' # returned /\ returned'.reason = "disabled")
          => /\ ~returned'.executed
             /\ procs' = procs
             /\ trades' = trades
             /\ UNCHANGED <<daily_trades, last_reset_date, last_trade_time,
                            consecutive_errors, trade_history>> ]_vars

-----------------------------------------------------------------------------
(* Further claims about the Alpaca orchestrator, checked under AlpacaSpec *)

\* C14: with require_ai_approval set, every signal that is at the risk check
\* or at the executor was scored by the analyzer with should_execute = true
\* and a score of at least min_ai_score.
C14_GateBeforeRiskAndExecutor ==
    \A p \in Procs :
        (config.require_ai_approval /\ procs[p].pc \in {"risk", "placing"})
            => /\ procs[p].ai_analysis # None
               /\ procs[p].ai_analysis[1].should_execute
               /\ procs[p].ai_analysis[1].score >= config.min_ai_score

\* C15: a signal reaches the executor only if its source is a member of the
\* configured allow-list; a missing or empty source never does.
C15_SourceInAllowList ==
    \A p \in Procs :
        procs[p].pc = "placing" => procs[p].signal[1].source \in config.allowed_sources

\* C20: when the executor reports success, the call returns executed = true
\* and exactly these changes happen: the daily counter increases by one, the
\* last-trade time of the signal's asset is set to now, the consecutive-error
\* counter becomes 0 and one record is appended to the trade history.
C20_SuccessBookkeeping ==
    [][ (returned' # returned /\ returned'.executed)
          => LET asset == returned'.signal[1].asset
             IN  /\ daily_trades' = daily_trades + 1
                 /\ DOMAIN last_trade_time' = DOMAIN last_trade_time \cup {asset}
                 /\ last_trade_time'[asset] = now
                 /\ \A a \in DOMAIN last_trade_time \ {asset} :
                        last_trade_time'[a] = last_trade_time[a]
                 /\ consecutive_errors' = 0
                 /\ Len(trade_history') = Len(trade_history) + 1
                 /\ SubSeq(trade_history', 1, Len(trade_history)) = trade_history
                 /\ trade_history'[Len(trade_history')].symbol = AlpacaSymbol(asset)
                 /\ UNCHANGED <<config, ai_analyzer, broker, last_reset_date, now>> ]_vars

\* a second order succeeded, on another asset than the first
C20_Witness ==
    /\ returned.executed
    /\ Len(trade_history) = 2
    /\ daily_trades = 2
    /\ consecutive_errors = 0
    /\ Cardinality(DOMAIN last_trade_time) = 2

\* the executor reported failure or raised
ExecutorFailed == returned.reason \in {"order_failed", "execution_error"}

\* C21: when the executor reports failure or raises, the consecutive-error
\* counter increases by exactly one, the daily counter, the last-trade times
\* and the trade history are unchanged, the result has executed = false, and
\* the call is over: the signal is not handed to the executor again.
C21_FailureBookkeeping ==
    [][ (returned' # returned /\ ExecutorFailed')
          => /\ consecutive_errors' = consecutive_errors + 1
             /\ UNCHANGED <<daily_trades, last_trade_time, trade_history>>
             /\ ~returned'.executed
             /\ \E p \in Procs :
                   /\ procs[p].pc = "placing"
                   /\ procs[p].signal = returned'.signal
                   /\ procs' = [procs EXCEPT ![p] = IdleProc] ]_vars

\* an order failed after another had succeeded
C21_Witness ==
    /\ ExecutorFailed
    /\ consecutive_errors = 1
    /\ daily_trades = 1
    /\ Len(trade_history) = 1

\* the first of the five pre-flight checks, in the order daily limit, source
\* allow-list, parser confidence, per-symbol cooldown, circuit breaker, that
\* the signal fails in the current state; "passed" when all five hold
FirstFailingCheck(signal) ==
    LET daily == IF Date(now) > last_reset_date THEN 0 ELSE daily_trades
    IN  IF daily >= config.max_daily_trades THEN "daily_limit"
        ELSE IF Lower(signal.source) \notin config.allowed_sources THEN "source_not_allowed"
        ELSE IF signal.confidence < config.min_confidence THEN "low_confidence"
        ELSE IF /\ signal.asset \in DOMAIN last_trade_time
                /\ now - last_trade_time[signal.asset] < config.cooldown_minutes
             THEN "cooldown"
        ELSE IF consecutive_errors >= max_consecutive_errors THEN "circuit_breaker"
        ELSE "passed"

PreflightReasons ==
    {"daily_limit", "source_not_allowed", "low_confidence", "cooldown", "circuit_breaker"}

\* this step is the start of a process_signal call for the signal on an
\* enabled orchestrator
Handles(signal) ==
    /\ config.enabled
    /\ \/ PreflightReturn /\ returned'.signal = Some(signal)
       \/ \E p \in Procs : /\ procs[p].pc = "idle"
                            /\ procs'[p].pc # "idle"
                            /\ procs'[p].signal = Some(signal)

\* C23: pre-flight evaluates daily limit, source allow-list, parser
\* confidence, per-symbol cooldown and circuit breaker in this order; the
\* rejection reason is that of the first check that fails, and a signal
\* passes pre-flight iff all five hold.
C23_FirstFailingCheckDecides ==
    [][ \A signal \in AlpacaSignals :
          Handles(signal)
            => (IF PreflightReturn /\ returned'.reason \in PreflightReasons
                THEN returned'.reason ELSE "passed") = FirstFailingCheck(signal) ]_vars

\* the asset's last successful execution is less than cooldown_minutes ago
InCooldown(asset) ==
    /\ asset \in DOMAIN last_trade_time
    /\ now - last_trade_time[asset] < config.cooldown_minutes

\* C24: after a successful execution for an asset, every signal for it that
\* is processed less than cooldown_minutes later is rejected in pre-flight
\* without a call to the analyzer or the executor; a cooldown rejection is
\* caused only by the signal's own asset; and only a successful execution
\* writes a last-trade time, so failed and rejected attempts neither start
\* nor extend a cooldown.
C24_CooldownPerAsset ==
    [][ /\ \A signal \in AlpacaSignals :
              Handles(signal)
                => /\ InCooldown(signal.asset)
                        => (PreflightReturn /\ returned'.reason \in PreflightReasons)
                   /\ (PreflightReturn /\ returned'.reason = "cooldown")
                        => InCooldown(signal.asset)
        /\ last_trade_time' # last_trade_time
              => (returned' # returned /\ returned'.executed) ]_vars

\* a signal for BTC was rejected during BTC's cooldown while ETH has none
C24_Witness ==
    /\ returned.reason = "cooldown"
    /\ returned.signal[1].asset = "BTC/USDT"
    /\ InCooldown("BTC/USDT")
    /\ ~InCooldown("ETH/USDT")
    /\ consecutive_errors > 0

-----------------------------------------------------------------------------
(* Claims about the parser and the Signal model, checked under ParserSpec *)

\* C16: for every parsed intent the confidence lies in [0,1], is_valid() is
\* true iff asset, action, entry and stop_loss are all non-null, and
\* to_signal gives a Signal only for a valid intent and None otherwise.
C16_ConfidenceAndValidity ==
    parsed.pc \in {"parsed", "converted"} =>
        /\ parsed.intent.confidence >= 0 /\ parsed.intent.confidence <= Num(1)
        /\ is_valid(parsed.intent)
              <=> (parsed.intent.asset # None /\ parsed.intent.action # None
                     /\ parsed.intent.entry # None /\ parsed.intent.stop_loss # None)
        /\ (parsed.pc = "converted" /\ parsed.signal # None) => is_valid(parsed.intent)
        /\ (parsed.pc = "converted" /\ ~is_valid(parsed.intent)) => parsed.signal = None

\* a valid intent whose score exceeds max_score was promoted to a Signal
C16_Witness ==
    /\ parsed.pc = "converted"
    /\ confidence_score(parsed.intent) > Num(10)
    /\ parsed.intent.confidence = Num(1)
    /\ parsed.signal # None

\* C17: every Signal that exists has a stop-loss different from its entry
\* price and a take-profit list that is deduplicated and ascending.
C17_StopDiffersTargetsAscending ==
    (parsed.pc = "converted" /\ parsed.signal # None) =>
        /\ parsed.signal[1].stop_loss # parsed.signal[1].entry
        /\ \A i, j \in DOMAIN parsed.signal[1].take_profits :
              i < j => parsed.signal[1].take_profits[i] < parsed.signal[1].take_profits[j]

-----------------------------------------------------------------------------
(* Claims about the Alpaca orchestrator, checked under AlpacaFairSpec *)

\* C19: circuit-breaker rejection is temporary: whenever the breaker is open
\* (consecutive errors at the threshold), the orchestrator comes, without a
\* restart, to a state in which the breaker is closed again, so that a signal
\* satisfying all other checks is passed to the executor.
C19_BreakerIsTemporary ==
    (consecutive_errors >= max_consecutive_errors)
        ~> (consecutive_errors < max_consecutive_errors)

-----------------------------------------------------------------------------
(* Claims about the Alpaca orchestrator, checked under AlpacaDaySpec *)

\* the reasons of a rejection at pre-flight, at the quality gate and at the
\* risk check
RejectionReasons ==
    { "daily_limit", "source_not_allowed", "low_confidence", "cooldown", "circuit_breaker",
      "ai_failed", "ai_rejected", "ai_score_low",
      "balance_unavailable", "max_positions", "low_rr" }

\* a process_signal call returns a rejection
Rejects == returned' # returned /\ returned'.reason \in RejectionReasons

\* no call is handed to the executor in this step
NoneReachesExecutor ==
    \A p \in Procs : procs'[p].pc = "placing" => procs[p].pc = "placing"

\* C22 as stated: a signal rejected at pre-flight, at the quality gate or at
\* the risk check never reaches the executor, and its processing leaves the
\* daily counter, the last-trade times, the consecutive-error counter and the
\* trade history unchanged.
C22_Original ==
    [][ Rejects
          => /\ ~returned'.executed
             /\ NoneReachesExecutor
             /\ UNCHANGED <<daily_trades, last_trade_time, consecutive_errors,
                            trade_history>> ]_vars

\* C22, amended: a signal rejected at pre-flight, at the quality gate or at
\* the risk check never reaches the executor, and its processing leaves the
\* last-trade times, the consecutive-error counter and the trade history
\* unchanged; the daily counter is unchanged too, unless the call is the
\* first since the UTC date advanced, in which case its daily reset has set
\* the counter to 0 before the signal was rejected.
C22_RejectionChangesNothingButReset ==
    [][ Rejects
          => /\ ~returned'.executed
             /\ NoneReachesExecutor
             /\ UNCHANGED <<last_trade_time, consecutive_errors, trade_history>>
             /\ IF PreflightReturn /\ Date(now) > last_reset_date
                THEN daily_trades' = 0
                ELSE daily_trades' = daily_trades ]_vars

\* a signal was rejected on the day after a trade, by a call that reset the
\* daily counter
C22_Witness ==
    /\ returned.reason \in RejectionReasons
    /\ Date(now) = 1
    /\ last_reset_date = 1
    /\ daily_trades = 0
    /\ Len(trade_history) >= 1

\* C25: when the UTC date has advanced since last_reset_date, the next
\* process_signal on an enabled orchestrator sets the daily counter to 0 and
\* last_reset_date to today before the daily-limit check, so it is not
\* rejected for a limit reached the day before; while the date has not
\* advanced, the daily counter is never decreased.
C25_DailyReset ==
    [][ /\ \A signal \in AlpacaSignals :
              (Handles(signal) /\ Date(now) > last_reset_date)
                => /\ daily_trades' = 0
                   /\ last_reset_date' = Date(now)
                   /\ ~(PreflightReturn /\ returned'.reason = "daily_limit")
        /\ Date(now) <= last_reset_date => daily_trades' >= daily_trades ]_vars

\* the daily limit was reached on day 0, and on day 1 a call has reset the
\* counter and passed pre-flight
C25_Witness ==
    /\ Date(now) = 1
    /\ last_reset_date = 1
    /\ daily_trades = 0
    /\ Len(trade_history) >= config.max_daily_trades
    /\ \A i \in DOMAIN trade_history : Date(trade_history[i].timestamp) = 0
    /\ \E p \in Procs : procs[p].pc # "idle"

-----------------------------------------------------------------------------
(* Claims about the sizing step of the Alpaca orchestrator, checked under    *)
(* AlpacaSizingSpec                                                          *)

\* the processes whose signal passed the quality gate with an analyzer score
\* and reached the sizing step
Sized == {p \in Procs : procs[p].pc \in {"risk", "placing"} /\ procs[p].ai_analysis # None}

\* C34: the score-tiered size multiplier never gives a lower score a larger
\* multiplier than a higher score, for any two scores that reach the sizing
\* step under the configured min_ai_score.
C34_MultiplierMonotone ==
    \A p, q \in Sized :
        procs[p].ai_analysis[1].score <= procs[q].ai_analysis[1].score
          => ScoreMultiplier(procs[p].ai_analysis[1].score)
               <= ScoreMultiplier(procs[q].ai_analysis[1].score)

\* the share max_position_size of the total equity
MaxPosition(total_equity) == (total_equity * config.risk.max_position_size) \div SCALE

\* C38: every approved position size handed to the executor is at most
\* max_position_size of the account's total equity, for every equity value
\* and every analyzer score.
C38_SizeWithinEquityShare ==
    [][ \A p \in Procs :
          /\ \A balance_result \in SizingBalances :
                (BrokerAnswers(p, balance_result, Some(0)) /\ procs'[p].pc = "placing")
                  => procs'[p].position_size <= MaxPosition(balance_result[1])
          /\ (procs[p].pc = "analyze" /\ ~broker /\ procs'[p].pc = "placing")
                  => procs'[p].position_size <= MaxPosition(Num(10000)) ]_vars

====
